---- MODULE Spec2Model ----
(***************************************************************************)
(* A model of the value formatter (src/utils/formatting.py), of the        *)
(* conditional rule engine (src/utils/conditional_formatting.py, with the  *)
(* colour helpers of src/utils/colors.py) and of the configuration         *)
(* dictionaries of a presentation and its slides (src/presentation.py).    *)
(*                                                                         *)
(* Texts are sequences of one-character strings, so that formatting,       *)
(* stripping and parsing are computed character by character.  A Python    *)
(* number is a record [t, n, d]: the rational n/d (d > 0, in lowest        *)
(* terms) tagged "int" or "float"; the float inputs are dyadic, so every   *)
(* arithmetic step the formatter takes on them is exact in binary floating *)
(* point as well.  The float -0.0 is the zero that carries a sign.         *)
(***************************************************************************)
EXTENDS Integers, Sequences, FiniteSets, TLC

VARIABLES
    value,          \* formatter: the raw value handed to format_value
    format_type,    \* formatter: the format kind
    config,         \* formatter: config["formatting"]
    formatted,      \* formatter: whether format_value has returned
    result,         \* formatter: the string format_value returned
    table,          \* rule engine: the cell texts, row by row
    colors,         \* rule engine: the cell fills, row by row
    start_colors,   \* rule engine: the fills the rendered table started with
    start_row,      \* rule engine: the start row the caller passes
    rules,          \* rule engine: the rule list of the last call
    before,         \* rule engine: the fills when the last call began
    trace,          \* rule engine: the fills after each rule of the last call
    raised,         \* rule engine: whether the last call raised
    applied,        \* rule engine: the rules handed over in all calls so far
    work,           \* rule engine: the rule applications made so far
    heap,           \* configuration: the dictionaries in memory, by address
    presentations,  \* configuration: the presentations constructed so far
    slides          \* configuration: the slides added so far

fvars == <<value, format_type, config, formatted, result>>

evars == <<table, colors, start_colors, start_row, rules, before, trace,
           raised, applied, work>>

pvars == <<heap, presentations, slides>>

vars == <<fvars, evars, pvars>>

(***************************************************************************)
(* Bounds of the formatter's inputs.                                       *)
(***************************************************************************)
MaxNum == 6
FracBits == 2
MaxDecimals == 2

(***************************************************************************)
(* Bound of the rule engine: the rule applications in one behaviour (a     *)
(* call with an empty list counts as one).                                 *)
(***************************************************************************)
MaxRules == 2

(***************************************************************************)
(* Bound of the configuration model: the constructions of a presentation   *)
(* and the add_slide calls in one behaviour.                               *)
(***************************************************************************)
MaxCalls == 3

Denom == 2 ^ FracBits

(***************************************************************************)
(* Arithmetic helpers.                                                     *)
(***************************************************************************)
Abs(x) == IF x < 0 THEN -x ELSE x

RECURSIVE GCD(_, _)
GCD(a, b) == IF b = 0 THEN a ELSE GCD(b, a % b)

\* The rational n/d in lowest terms.
Norm(n, d) ==
    LET g == GCD(Abs(n), d)
    IN  [n |-> n \div g, d |-> d \div g]

PyInt(i) == [t |-> "int", n |-> i, d |-> 1, s |-> <<>>]
PyFloat(n, d) == [t |-> "float", n |-> Norm(n, d).n, d |-> Norm(n, d).d, s |-> <<>>]
PyStr(chars) == [t |-> "str", n |-> 0, d |-> 1, s |-> chars]
PyNone == [t |-> "none", n |-> 0, d |-> 1, s |-> <<>>]
PyNaN == [t |-> "nan", n |-> 0, d |-> 1, s |-> <<>>]

\* The float -0.0: equal to 0, not below 0, and printed with its sign.
PyNegZero == [t |-> "float", n |-> 0, d |-> 1, s |-> <<"-">>]

\* The sign bit of a number; value * 100 keeps it.
SignBit(v) == v.n < 0 \/ (v.t = "float" /\ v.s = <<"-">>)

\* isinstance(value, (int, float))
IsNumber(v) == v.t \in {"int", "float", "nan"}

\* pd.isna(value) for a scalar
IsNA(v) == v.t \in {"none", "nan"}

\* round(): to the nearest integer, a tie to the even neighbour (num >= 0).
RoundHalfEven(num, den) ==
    LET q == num \div den
        r == num % den
    IN  IF 2 * r < den THEN q
        ELSE IF 2 * r > den THEN q + 1
        ELSE IF q % 2 = 0 THEN q ELSE q + 1

\* int(): truncation toward zero of n/d.
PyTrunc(n, d) == IF n < 0 THEN -(Abs(n) \div d) ELSE n \div d

\* round(value) written as int(value).
PyRoundTruncating(n, d) == IF n < 0 THEN -(Abs(n) \div d) ELSE n \div d

\* round(value) with no digits: the nearest integer, ties to even.
PyRound(n, d) == IF n < 0 THEN -RoundHalfEven(Abs(n), d) ELSE RoundHalfEven(n, d)

(***************************************************************************)
(* Rendering of digits.                                                    *)
(***************************************************************************)
DigitChars == <<"0", "1", "2", "3", "4", "5", "6", "7", "8", "9">>

DigitChar(k) == DigitChars[k + 1]

RECURSIVE NatText(_)
NatText(k) ==
    IF k < 10 THEN <<DigitChar(k)>>
    ELSE NatText(k \div 10) \o <<DigitChar(k % 10)>>

\* k written with exactly w digits (zero padded on the left).
RECURSIVE PadText(_, _)
PadText(k, w) ==
    IF w = 0 THEN <<>>
    ELSE PadText(k \div 10, w - 1) \o <<DigitChar(k % 10)>>

\* The "," format option: groups of three digits.
RECURSIVE GroupedText(_)
GroupedText(k) ==
    IF k < 1000 THEN NatText(k)
    ELSE GroupedText(k \div 1000) \o <<",">> \o PadText(k % 1000, 3)

\* IntText with the minus sign written after the digits.
IntTextTrailingSign(i, show_commas) ==
    (IF show_commas THEN GroupedText(Abs(i)) ELSE NatText(Abs(i)))
        \o (IF i < 0 THEN <<"-">> ELSE <<>>)

\* f"{i:,}" / str(i) of an integer i.
IntText(i, show_commas) ==
    (IF i < 0 THEN <<"-">> ELSE <<>>)
        \o (IF show_commas THEN GroupedText(Abs(i)) ELSE NatText(Abs(i)))

\* f"{value:,.{p}f}" / f"{value:.{p}f}" of the number n/d, p >= 1: the
\* magnitude rounded to p places (ties to even), the sign of the number
\* (minus) kept even when the rounded magnitude is zero.  The whole part
\* times 10^p is even, so the tie rule may be applied to the fractional
\* units alone.
FixedText(minus, n, d, p, show_commas) ==
    LET whole == Abs(n) \div d
        rest == Abs(n) % d
        units == RoundHalfEven(rest * (10 ^ p), d)
        carry == units \div (10 ^ p)
        ip == whole + carry
        fp == units % (10 ^ p)
    IN  (IF minus THEN <<"-">> ELSE <<>>)
            \o (IF show_commas THEN GroupedText(ip) ELSE NatText(ip))
            \o <<".">> \o PadText(fp, p)

(***************************************************************************)
(* src/utils/formatting.py                                                 *)
(***************************************************************************)
\* dict.get(key, default)
Get(section, key, default) ==
    IF key \in DOMAIN section THEN section[key] ELSE default

\* format_number of the number n/d whose sign bit is minus.
format_number(minus, n, d, decimal_places, show_commas) ==
    IF decimal_places = 0
    THEN IntText(PyTrunc(n, d), show_commas)
    ELSE FixedText(minus, n, d, decimal_places, show_commas)

\* DollarScaling with the thresholds tested by > where the code has >=.
DollarScalingStrict(n, d, scaling) ==
    IF scaling = "K" /\ Abs(n) > 1000 * d
    THEN <<Norm(n, d * 1000).n, Norm(n, d * 1000).d, <<"K">>>>
    ELSE IF scaling = "M" /\ Abs(n) > 1000000 * d
    THEN <<Norm(n, d * 1000000).n, Norm(n, d * 1000000).d, <<"M">>>>
    ELSE IF scaling = "B" /\ Abs(n) \div d >= 1000000000
                          /\ (Abs(n) \div d > 1000000000 \/ Abs(n) % d # 0)
    THEN <<Norm(n, d * 1000000000).n, Norm(n, d * 1000000000).d, <<"B">>>>
    ELSE <<n, d, <<>>>>

\* The scaling branch of format_dollars: <<n, d, suffix>>.
DollarScaling(n, d, scaling) ==
    IF scaling = "K" /\ Abs(n) >= 1000 * d
    THEN <<Norm(n, d * 1000).n, Norm(n, d * 1000).d, <<"K">>>>
    ELSE IF scaling = "M" /\ Abs(n) >= 1000000 * d
    THEN <<Norm(n, d * 1000000).n, Norm(n, d * 1000000).d, <<"M">>>>
    ELSE IF scaling = "B" /\ Abs(n) \div d >= 1000000000
    THEN <<Norm(n, d * 1000000000).n, Norm(n, d * 1000000000).d, <<"B">>>>
    ELSE <<n, d, <<>>>>

\* format_dollars with the symbol written inside the parentheses.
format_dollars_symbol_inside(v, cfg) ==
    IF ~IsNumber(v) \/ IsNA(v) THEN <<>>
    ELSE
    LET dollars_config == cfg["dollars"]
        sc == DollarScaling(v.n, v.d, Get(dollars_config, "scaling", "None"))
        n == sc[1]
        d == sc[2]
        suffix == sc[3]
        decimal_places == Get(dollars_config, "decimal_places", 0)
        negative_in_parentheses == Get(dollars_config, "negative_in_parentheses", TRUE)
        symbol == IF Get(dollars_config, "show_symbol", TRUE) THEN <<"$">> ELSE <<>>
    IN  IF n < 0 /\ negative_in_parentheses
        THEN <<"(">> \o symbol \o format_number(FALSE, Abs(n), d, decimal_places, TRUE)
                \o suffix \o <<")">>
        ELSE symbol \o format_number(SignBit(v), n, d, decimal_places, TRUE) \o suffix

format_dollars(v, cfg) ==
    IF ~IsNumber(v) \/ IsNA(v) THEN <<>>
    ELSE
    LET dollars_config == cfg["dollars"]
        sc == DollarScaling(v.n, v.d, Get(dollars_config, "scaling", "None"))
        n == sc[1]
        d == sc[2]
        suffix == sc[3]
        decimal_places == Get(dollars_config, "decimal_places", 0)
        negative_in_parentheses == Get(dollars_config, "negative_in_parentheses", TRUE)
        text == IF n < 0 /\ negative_in_parentheses
                THEN <<"(">> \o format_number(FALSE, Abs(n), d, decimal_places, TRUE)
                        \o <<")">>
                ELSE format_number(SignBit(v), n, d, decimal_places, TRUE)
    IN  IF Get(dollars_config, "show_symbol", TRUE)
        THEN <<"$">> \o text \o suffix
        ELSE text \o suffix

\* format_percentage with the proportion test written abs(value) < 1.
format_percentage_strict(v, cfg) ==
    IF ~IsNumber(v) \/ IsNA(v) THEN <<>>
    ELSE
    LET percentage_config == cfg["percentages"]
        n == IF Abs(v.n) < v.d THEN Norm(v.n * 100, v.d).n ELSE v.n
        d == IF Abs(v.n) < v.d THEN Norm(v.n * 100, v.d).d ELSE v.d
        decimal_places == Get(percentage_config, "decimal_places", 1)
        negative_in_parentheses == Get(percentage_config, "negative_in_parentheses", TRUE)
        text == IF n < 0 /\ negative_in_parentheses
                THEN <<"(">> \o format_number(FALSE, Abs(n), d, decimal_places, TRUE)
                        \o <<")">>
                ELSE format_number(SignBit(v), n, d, decimal_places, TRUE)
    IN  IF Get(percentage_config, "show_symbol", TRUE)
        THEN text \o <<"%">>
        ELSE text

format_percentage(v, cfg) ==
    IF ~IsNumber(v) \/ IsNA(v) THEN <<>>
    ELSE
    LET percentage_config == cfg["percentages"]
        n == IF Abs(v.n) <= v.d THEN Norm(v.n * 100, v.d).n ELSE v.n
        d == IF Abs(v.n) <= v.d THEN Norm(v.n * 100, v.d).d ELSE v.d
        decimal_places == Get(percentage_config, "decimal_places", 1)
        negative_in_parentheses == Get(percentage_config, "negative_in_parentheses", TRUE)
        text == IF n < 0 /\ negative_in_parentheses
                THEN <<"(">> \o format_number(FALSE, Abs(n), d, decimal_places, TRUE)
                        \o <<")">>
                ELSE format_number(SignBit(v), n, d, decimal_places, TRUE)
    IN  IF Get(percentage_config, "show_symbol", TRUE)
        THEN text \o <<"%">>
        ELSE text

format_counts(v, cfg) ==
    IF ~IsNumber(v) \/ IsNA(v) THEN <<>>
    ELSE
    LET counts_config == cfg["counts"]
        rounded == PyRound(v.n, v.d)
        show_commas == Get(counts_config, "show_commas", TRUE)
        negative_in_parentheses == Get(counts_config, "negative_in_parentheses", TRUE)
    IN  IF rounded < 0 /\ negative_in_parentheses
        THEN IF show_commas
             THEN <<"(">> \o format_number(FALSE, Abs(rounded), 1, 0, TRUE) \o <<")">>
             ELSE <<"(">> \o IntText(Abs(rounded), FALSE) \o <<")">>
        ELSE IF show_commas
             THEN format_number(rounded < 0, rounded, 1, 0, TRUE)
             ELSE IntText(rounded, FALSE)

\* The digits of rest/d after the decimal point, written out exactly (the
\* expansion of a dyadic fraction terminates).
RECURSIVE FractionText(_, _)
FractionText(rest, d) ==
    IF rest = 0 THEN <<>>
    ELSE <<DigitChar((rest * 10) \div d)>> \o FractionText((rest * 10) % d, d)

\* str(value)
PyStrOf(v) ==
    CASE v.t = "str" -> v.s
      [] v.t = "int" -> IntText(v.n, FALSE)
      [] v.t = "float" ->
            (IF SignBit(v) THEN <<"-">> ELSE <<>>)
                \o NatText(Abs(v.n) \div v.d) \o <<".">>
                \o (IF Abs(v.n) % v.d = 0 THEN <<"0">>
                    ELSE FractionText(Abs(v.n) % v.d, v.d))
      [] OTHER -> <<>>

\* format_value with the text test ahead of the None / NaN test.
format_value_text_first(v, kind, cfg) ==
    IF kind = "text" \/ v.t = "str"
    THEN CASE v.t = "none" -> <<"N", "o", "n", "e">>
           [] v.t = "nan" -> <<"n", "a", "n">>
           [] OTHER -> PyStrOf(v)
    ELSE IF v.t = "none" \/ (IsNumber(v) /\ IsNA(v)) THEN <<>>
    ELSE IF kind = "dollars" THEN format_dollars(v, cfg)
    ELSE IF kind = "percentage" THEN format_percentage(v, cfg)
    ELSE IF kind = "counts" THEN format_counts(v, cfg)
    ELSE PyStrOf(v)

format_value(v, kind, cfg) ==
    IF v.t = "none" \/ (IsNumber(v) /\ IsNA(v)) THEN <<>>
    ELSE IF kind = "text" \/ v.t = "str" THEN PyStrOf(v)
    ELSE IF kind = "dollars" THEN format_dollars(v, cfg)
    ELSE IF kind = "percentage" THEN format_percentage(v, cfg)
    ELSE IF kind = "counts" THEN format_counts(v, cfg)
    ELSE PyStrOf(v)

(***************************************************************************)
(* The formatter's inputs.                                                 *)
(***************************************************************************)
\* DEFAULT_CONFIG["formatting"]
DefaultFormatting ==
    [dollars |-> [decimal_places |-> 0, show_symbol |-> TRUE,
                  negative_in_parentheses |-> TRUE, scaling |-> "None"],
     percentages |-> [decimal_places |-> 1, show_symbol |-> TRUE,
                      negative_in_parentheses |-> TRUE],
     counts |-> [decimal_places |-> 0, show_commas |-> TRUE,
                 negative_in_parentheses |-> TRUE]]

\* A section that sets none of the keys the formatter reads.
BareSection == [negative_color |-> "FF0000"]

DollarSections ==
    [decimal_places : 0 .. MaxDecimals, show_symbol : BOOLEAN,
     negative_in_parentheses : BOOLEAN, scaling : {"None", "K", "M", "B"}]
        \cup {BareSection}

PercentageSections ==
    [decimal_places : 0 .. MaxDecimals, show_symbol : BOOLEAN,
     negative_in_parentheses : BOOLEAN] \cup {BareSection}

CountSections ==
    [decimal_places : {0}, show_commas : BOOLEAN,
     negative_in_parentheses : BOOLEAN] \cup {BareSection}

FormatTypes == {"dollars", "percentage", "counts", "text", "other"}

\* The profiles tried with a format kind: the section that kind reads varies,
\* the other sections keep their defaults.
Profiles(kind) ==
    CASE kind = "dollars" ->
            {[DefaultFormatting EXCEPT !.dollars = sec] : sec \in DollarSections}
      [] kind = "percentage" ->
            {[DefaultFormatting EXCEPT !.percentages = sec] : sec \in PercentageSections}
      [] kind = "counts" ->
            {[DefaultFormatting EXCEPT !.counts = sec] : sec \in CountSections}
      [] OTHER -> {DefaultFormatting}

SmallFloats == {PyFloat(k, Denom) : k \in (-MaxNum) .. MaxNum}

\* -1234.5, 1234.75, 50.0, 2.5, 1000.25, -0.125, -0.0
NotedFloats ==
    {PyFloat(-2469, 2), PyFloat(4939, 4), PyFloat(50, 1), PyFloat(5, 2),
     PyFloat(4001, 4), PyFloat(-1, 8), PyNegZero}

NotedInts ==
    {PyInt(-3), PyInt(0), PyInt(50), PyInt(999), PyInt(1000), PyInt(-1500),
     PyInt(1234567), PyInt(1000000)}

\* Amounts only the dollars kind is tried with.
LargeAmounts == {PyInt(999999999), PyInt(1000000000), PyInt(-1500000000)}

Values ==
    SmallFloats \cup NotedFloats \cup NotedInts
        \cup {PyNone, PyNaN, PyStr(<<"n", "/", "a">>)}

\* No table is rendered while the formatter alone is exercised.
NoTable ==
    /\ table = <<>>
    /\ colors = <<>>
    /\ start_colors = <<>>
    /\ start_row = 0
    /\ rules = <<>>
    /\ before = <<>>
    /\ trace = <<>>
    /\ raised = FALSE
    /\ applied = {}
    /\ work = 0

\* No presentation exists while the formatter or the rule engine alone is
\* exercised.
NoPresentation ==
    /\ heap = <<>>
    /\ presentations = <<>>
    /\ slides = <<>>

ValuesFor(kind) == IF kind = "dollars" THEN Values \cup LargeAmounts ELSE Values

FormatInit ==
    /\ format_type \in FormatTypes
    /\ value \in ValuesFor(format_type)
    /\ config \in Profiles(format_type)
    /\ formatted = FALSE
    /\ result = <<>>
    /\ NoTable
    /\ NoPresentation

\* A call of format_value(value, format_type, config).
FormatValue ==
    /\ ~formatted
    /\ result' = format_value(value, format_type, config)
    /\ formatted' = TRUE
    /\ UNCHANGED <<value, format_type, config>>
    /\ UNCHANGED evars
    /\ UNCHANGED pvars

FormatNext == FormatValue

FormatSpec == FormatInit /\ [][FormatNext]_vars

(***************************************************************************)
(* src/utils/colors.py                                                     *)
(***************************************************************************)
HexChars ==
    <<"0", "1", "2", "3", "4", "5", "6", "7", "8", "9", "A", "B", "C", "D", "E", "F">>

LowerHexChars ==
    <<"0", "1", "2", "3", "4", "5", "6", "7", "8", "9", "a", "b", "c", "d", "e", "f">>

\* int(ch, 16) of one hexadecimal digit, either case.
HexValue(ch) ==
    (CHOOSE k \in 1 .. 16 : HexChars[k] = ch \/ LowerHexChars[k] = ch) - 1

\* int(text[i:i+2], 16), i counted from 1.
HexPair(text, i) == 16 * HexValue(text[i]) + HexValue(text[i + 1])

\* str.lstrip(ch)
RECURSIVE LStrip(_, _)
LStrip(text, ch) ==
    IF text # <<>> /\ Head(text) = ch THEN LStrip(Tail(text), ch) ELSE text

hex_to_rgb(hex_str) ==
    LET h == LStrip(hex_str, "#")
    IN  <<HexPair(h, 1), HexPair(h, 3), HexPair(h, 5)>>

\* f"{x:02X}"
HexByte(x) == <<HexChars[(x \div 16) + 1], HexChars[(x % 16) + 1]>>

rgb_to_hex(r, g, b) == HexByte(r) \o HexByte(g) \o HexByte(b)

\* One channel of step i: round(start + i / (steps - 1) * (end - start)).
ScaleChannel(start, end, steps, i) ==
    IF steps > 1
    THEN PyRound(start * (steps - 1) + i * (end - start), steps - 1)
    ELSE start

create_color_scale(start_color, end_color, steps) ==
    LET start_rgb == hex_to_rgb(start_color)
        end_rgb == hex_to_rgb(end_color)
    IN  [j \in 1 .. steps |->
            rgb_to_hex(ScaleChannel(start_rgb[1], end_rgb[1], steps, j - 1),
                       ScaleChannel(start_rgb[2], end_rgb[2], steps, j - 1),
                       ScaleChannel(start_rgb[3], end_rgb[3], steps, j - 1))]

(***************************************************************************)
(* The table: rows of cell texts, and rows of cell fills.  Rows and        *)
(* columns are counted from 0, as in the source.                           *)
(***************************************************************************)
NoFill == <<>>

\* RGBColor.from_string(color): the fill a cell holds is an RGB triple.
RGBColorFromString(color) ==
    <<HexPair(color, 1), HexPair(color, 3), HexPair(color, 5)>>

NumRows(t) == Len(t)

NumCols(t) == Len(t[1])

CellText(t, row_idx, col_idx) == t[row_idx + 1][col_idx + 1]

\* cell.fill.solid(); cell.fill.fore_color.rgb = rgb
SetFill(grid, row_idx, col_idx, rgb) ==
    [grid EXCEPT ![row_idx + 1][col_idx + 1] = rgb]

(***************************************************************************)
(* Value extraction: float(cell.text.replace("$", "").replace(",", "")     *)
(*                              .replace("%", ""))                        *)
(***************************************************************************)
\* text.replace(ch, "")
Remove(text, ch) == SelectSeq(text, LAMBDA x : x # ch)

StripAdornments(text) == Remove(Remove(Remove(text, "$"), ","), "%")

IsDigit(ch) == ch \in {"0", "1", "2", "3", "4", "5", "6", "7", "8", "9"}

DigitValue(ch) == (CHOOSE k \in 1 .. 10 : DigitChars[k] = ch) - 1

RECURSIVE DigitsValue(_)
DigitsValue(digits) ==
    IF digits = <<>> THEN 0
    ELSE 10 * DigitsValue(SubSeq(digits, 1, Len(digits) - 1))
            + DigitValue(digits[Len(digits)])

\* str.strip() of blanks
RECURSIVE RStrip(_, _)
RStrip(text, ch) ==
    IF text # <<>> /\ text[Len(text)] = ch
    THEN RStrip(SubSeq(text, 1, Len(text) - 1), ch)
    ELSE text

\* float(text) for decimal numerals: blanks around, an optional sign, digits
\* with at most one point.  ok = FALSE stands for ValueError; otherwise the
\* value is n/d.
ParseFloat(text) ==
    LET s == RStrip(LStrip(text, " "), " ")
        signed == s # <<>> /\ s[1] \in {"-", "+"}
        body == IF signed THEN Tail(s) ELSE s
        digits == SelectSeq(body, IsDigit)
        points == SelectSeq(body, LAMBDA x : x = ".")
        ok == /\ Len(digits) >= 1
              /\ Len(points) <= 1
              /\ Len(digits) + Len(points) = Len(body)
        frac == IF Len(points) = 1
                THEN Len(body) - (CHOOSE i \in 1 .. Len(body) : body[i] = ".")
                ELSE 0
        mag == DigitsValue(digits)
    IN  IF ok
        THEN [ok |-> TRUE,
              n |-> Norm(IF s[1] = "-" THEN -mag ELSE mag, 10 ^ frac).n,
              d |-> Norm(mag, 10 ^ frac).d]
        ELSE [ok |-> FALSE, n |-> 0, d |-> 1]

\* ColumnValues with the ValueError handler giving the value 0 instead of
\* skipping the cell.
ColumnValuesLenient(t, col_idx, row_idx) ==
    [i \in 1 .. (IF row_idx >= NumRows(t) THEN 0 ELSE NumRows(t) - row_idx) |->
        LET p == ParseFloat(StripAdornments(CellText(t, row_idx + i - 1, col_idx)))
        IN  [row |-> row_idx + i - 1, n |-> p.n, d |-> p.d]]

\* ColumnValues reading every row of the table, whatever the start row.
ColumnValuesFromTop(t, col_idx, row_idx) ==
    SelectSeq([i \in 1 .. NumRows(t) |->
                  LET p == ParseFloat(StripAdornments(CellText(t, i - 1, col_idx)))
                  IN  [row |-> i - 1, n |-> p.n, d |-> p.d, ok |-> p.ok]],
              LAMBDA x : x.ok)

\* The (row_idx, value) pairs of the rows first_row .. last whose text parses.
RECURSIVE ColumnValues(_, _, _)
ColumnValues(t, col_idx, row_idx) ==
    IF row_idx >= NumRows(t) THEN <<>>
    ELSE LET p == ParseFloat(StripAdornments(CellText(t, row_idx, col_idx)))
         IN  (IF p.ok THEN <<[row |-> row_idx, n |-> p.n, d |-> p.d]>> ELSE <<>>)
                \o ColumnValues(t, col_idx, row_idx + 1)

\* Arithmetic on values n/d.
ValLess(a, b) == a.n * b.d < b.n * a.d

ValEq(a, b) == a.n * b.d = b.n * a.d

ValSub(a, b) == Norm(a.n * b.d - b.n * a.d, a.d * b.d)

\* min(values, key=lambda x: x[1])[1] and max(...)[1]
MinValue(values) ==
    LET i == CHOOSE i \in 1 .. Len(values) :
                \A j \in 1 .. Len(values) : ~ValLess(values[j], values[i])
    IN  [n |-> values[i].n, d |-> values[i].d]

MaxValue(values) ==
    LET i == CHOOSE i \in 1 .. Len(values) :
                \A j \in 1 .. Len(values) : ~ValLess(values[i], values[j])
    IN  [n |-> values[i].n, d |-> values[i].d]

(***************************************************************************)
(* src/utils/conditional_formatting.py                                     *)
(***************************************************************************)
\* A rule's column: an integer, a text, or None.
ColInt(i) == [k |-> "int", i |-> i, s |-> <<>>]
ColStr(chars) == [k |-> "str", i |-> 0, s |-> chars]
ColNone == [k |-> "none", i |-> 0, s |-> <<>>]

\* _find_column_index taking a negative integer as counted from the end.
FindColumnIndexWrapping(t, column, rule) ==
    IF column.k = "int"
    THEN IF 0 <= column.i /\ column.i < NumCols(t) THEN <<column.i>>
         ELSE IF column.i < 0 /\ column.i + NumCols(t) >= 0
         THEN <<column.i + NumCols(t)>>
         ELSE <<>>
    ELSE IF "col_idx" \in DOMAIN rule /\ 0 <= rule["col_idx"]
                /\ rule["col_idx"] < NumCols(t)
    THEN <<rule["col_idx"]>>
    ELSE IF column.k = "str"
                /\ \E i \in 0 .. NumCols(t) - 1 : CellText(t, 0, i) = column.s
    THEN <<CHOOSE i \in 0 .. NumCols(t) - 1 :
                /\ CellText(t, 0, i) = column.s
                /\ \A j \in 0 .. i - 1 : CellText(t, 0, j) # column.s>>
    ELSE <<>>

\* _find_column_index searching the header row before it looks at col_idx.
FindColumnIndexNameFirst(t, column, rule) ==
    IF column.k = "int"
    THEN IF 0 <= column.i /\ column.i < NumCols(t) THEN <<column.i>> ELSE <<>>
    ELSE IF column.k = "str"
                /\ \E i \in 0 .. NumCols(t) - 1 : CellText(t, 0, i) = column.s
    THEN <<CHOOSE i \in 0 .. NumCols(t) - 1 :
                /\ CellText(t, 0, i) = column.s
                /\ \A j \in 0 .. i - 1 : CellText(t, 0, j) # column.s>>
    ELSE IF "col_idx" \in DOMAIN rule /\ 0 <= rule["col_idx"]
                /\ rule["col_idx"] < NumCols(t)
    THEN <<rule["col_idx"]>>
    ELSE <<>>

\* _find_column_index: <<i>> for the index i, <<>> for None.
FindColumnIndex(t, column, rule) ==
    IF column.k = "int"
    THEN IF 0 <= column.i /\ column.i < NumCols(t) THEN <<column.i>> ELSE <<>>
    ELSE IF "col_idx" \in DOMAIN rule /\ 0 <= rule["col_idx"]
                /\ rule["col_idx"] < NumCols(t)
    THEN <<rule["col_idx"]>>
    ELSE IF column.k = "str"
                /\ \E i \in 0 .. NumCols(t) - 1 : CellText(t, 0, i) = column.s
    THEN <<CHOOSE i \in 0 .. NumCols(t) - 1 :
                /\ CellText(t, 0, i) = column.s
                /\ \A j \in 0 .. i - 1 : CellText(t, 0, j) # column.s>>
    ELSE <<>>

\* What a rule function hands back: the fills, and whether it raised.
Returned(grid) == [colors |-> grid, raised |-> FALSE]
Raised(grid) == [colors |-> grid, raised |-> TRUE]

\* A loop that gives the fill to every cell of the row of values[i].
PaintRows(grid, col_idx, values, fills) ==
    [r \in 1 .. Len(grid) |->
        [c \in 1 .. Len(grid[r]) |->
            IF \E i \in 1 .. Len(values) : values[i].row = r - 1
            THEN LET fill == fills[CHOOSE i \in 1 .. Len(values) : values[i].row = r - 1]
                 IN  IF fill # NoFill THEN fill ELSE grid[r][c]
            ELSE grid[r][c]]]

\* The fills after a loop over the (row, value) pairs that gives the cell of
\* values[i] the fill fills[i], or leaves it alone when fills[i] is NoFill.
PaintColumn(grid, col_idx, values, fills) ==
    [r \in 1 .. Len(grid) |->
        [c \in 1 .. Len(grid[r]) |->
            IF c = col_idx + 1 /\ \E i \in 1 .. Len(values) : values[i].row = r - 1
            THEN LET fill == fills[CHOOSE i \in 1 .. Len(values) : values[i].row = r - 1]
                 IN  IF fill # NoFill THEN fill ELSE grid[r][c]
            ELSE grid[r][c]]]

\* The default colours of the rule functions.
Green63BE7B == <<"6", "3", "B", "E", "7", "B">>
RedF8696B == <<"F", "8", "6", "9", "6", "B">>
YellowFFEB84 == <<"F", "F", "E", "B", "8", "4">>
Blue638EC6 == <<"6", "3", "8", "E", "C", "6">>
RedFF0000 == <<"F", "F", "0", "0", "0", "0">>

ScaleSteps == 100
HalfScaleSteps == 50

\* ScalePosition with 100 as the factor, where the code has 99.
ScalePositionPercent(v, min_val, max_val) ==
    LET offset == ValSub(v, min_val)
        scale_range == ValSub(max_val, min_val)
        position == PyTrunc(100 * offset.n * scale_range.d, offset.d * scale_range.n)
    IN  IF position < 0 THEN 0 ELSE IF position > 99 THEN 99 ELSE position

\* position = int(((value - scale_min) / scale_range) * 99), then clamped.
\* The quotient and the product are taken exactly; the columns of Tables hold
\* values for which the double-precision results have the same integer part.
ScalePosition(v, min_val, max_val) ==
    LET offset == ValSub(v, min_val)
        scale_range == ValSub(max_val, min_val)
        position == PyTrunc(99 * offset.n * scale_range.d, offset.d * scale_range.n)
    IN  IF position < 0 THEN 0 ELSE IF position > 99 THEN 99 ELSE position

\* ScaleFill without the scale_range > 0 test: position 0 on a flat column.
ScaleFillUnguarded(v, min_val, max_val, color_scale) ==
    IF ValLess(min_val, max_val)
    THEN RGBColorFromString(color_scale[ScalePosition(v, min_val, max_val) + 1])
    ELSE RGBColorFromString(color_scale[1])

\* The body of the loop over the values: with scale_range > 0 the cell gets
\* color_scale[position], otherwise it is left as it is.
ScaleFill(v, min_val, max_val, color_scale) ==
    IF ValLess(min_val, max_val)
    THEN RGBColorFromString(color_scale[ScalePosition(v, min_val, max_val) + 1])
    ELSE NoFill

\* A concatenation that keeps the shared middle colour once and repeats the
\* last colour instead.
ConcatSharedMiddle(lower, lower_len, upper, upper_len) ==
    [j \in 1 .. lower_len + upper_len |->
        IF j <= lower_len THEN lower[j]
        ELSE IF j < lower_len + upper_len THEN upper[j - lower_len + 1]
        ELSE upper[upper_len]]

\* lower + upper, for lists of the given lengths; an entry is computed when
\* it is read.
Concat(lower, lower_len, upper, upper_len) ==
    [j \in 1 .. lower_len + upper_len |->
        IF j <= lower_len THEN lower[j] ELSE upper[j - lower_len]]

apply_color_scale(grid, t, rule, first_row) ==
    LET column == Get(rule, "column", ColNone)
        min_color == Get(rule, "min_color", Green63BE7B)
        mid_color == Get(rule, "mid_color", <<>>)
        max_color == Get(rule, "max_color", RedF8696B)
        found == FindColumnIndex(t, column, rule)
    IN  IF found = <<>> THEN Returned(grid)
        ELSE
        LET col_idx == found[1]
            values == ColumnValues(t, col_idx, first_row)
        IN  IF values = <<>> THEN Returned(grid)
            ELSE
            LET min_val == MinValue(values)
                max_val == MaxValue(values)
                color_scale ==
                    IF mid_color # <<>>
                    THEN Concat(create_color_scale(min_color, mid_color, HalfScaleSteps),
                                HalfScaleSteps,
                                create_color_scale(mid_color, max_color, HalfScaleSteps),
                                HalfScaleSteps)
                    ELSE create_color_scale(min_color, max_color, ScaleSteps)
            IN  Returned(PaintColumn(grid, col_idx, values,
                    [i \in 1 .. Len(values) |->
                        ScaleFill(values[i], min_val, max_val, color_scale)]))

\* apply_data_bars that passes over the cells that already hold a fill.
apply_data_bars_on_blank_cells(grid, t, rule, first_row) ==
    LET column == Get(rule, "column", ColNone)
        color == Get(rule, "color", Blue638EC6)
        found == FindColumnIndex(t, column, rule)
    IN  IF found = <<>> THEN Returned(grid)
        ELSE
        LET col_idx == found[1]
            values == ColumnValues(t, col_idx, first_row)
        IN  IF values = <<>> THEN Returned(grid)
            ELSE Returned(PaintColumn(grid, col_idx, values,
                            [i \in 1 .. Len(values) |->
                                IF grid[values[i].row + 1][col_idx + 1] # NoFill
                                THEN NoFill
                                ELSE RGBColorFromString(color)]))

\* apply_data_bars that leaves a bar of width 0, the cell of the smallest
\* value, without fill.
apply_data_bars_by_width(grid, t, rule, first_row) ==
    LET column == Get(rule, "column", ColNone)
        color == Get(rule, "color", Blue638EC6)
        found == FindColumnIndex(t, column, rule)
    IN  IF found = <<>> THEN Returned(grid)
        ELSE
        LET col_idx == found[1]
            values == ColumnValues(t, col_idx, first_row)
        IN  IF values = <<>> THEN Returned(grid)
            ELSE Returned(PaintColumn(grid, col_idx, values,
                            [i \in 1 .. Len(values) |->
                                IF /\ ValLess(MinValue(values), MaxValue(values))
                                   /\ ValEq(values[i], MinValue(values))
                                THEN NoFill
                                ELSE RGBColorFromString(color)]))

apply_data_bars(grid, t, rule, first_row) ==
    LET column == Get(rule, "column", ColNone)
        color == Get(rule, "color", Blue638EC6)
        found == FindColumnIndex(t, column, rule)
    IN  IF found = <<>> THEN Returned(grid)
        ELSE
        LET col_idx == found[1]
            values == ColumnValues(t, col_idx, first_row)
        IN  IF values = <<>> THEN Returned(grid)
            ELSE Returned(PaintColumn(grid, col_idx, values,
                            [i \in 1 .. Len(values) |-> RGBColorFromString(color)]))

\* The threshold test with < in place of <=.
AtMostThresholdStrict(v, min_val, value_range, threshold) ==
    (v.n * min_val.d - min_val.n * v.d) * value_range.d * 100
        < value_range.n * threshold * v.d * min_val.d

\* value <= min_val + (value_range * threshold / 100)
AtMostThreshold(v, min_val, value_range, threshold) ==
    (v.n * min_val.d - min_val.n * v.d) * value_range.d * 100
        <= value_range.n * threshold * v.d * min_val.d

\* The band of a value: 0, 1 or 2.
IconBand(v, min_val, value_range, thresholds) ==
    IF AtMostThreshold(v, min_val, value_range, thresholds[1]) THEN 0
    ELSE IF Len(thresholds) > 1
                /\ AtMostThreshold(v, min_val, value_range, thresholds[2]) THEN 1
    ELSE 2

\* The loop of apply_icon_set over the values from the i-th on: indexing an
\* empty threshold list, or a colour list shorter than the band, raises
\* IndexError and leaves the fills made so far.
RECURSIVE IconLoop(_, _, _, _, _, _, _, _)
IconLoop(grid, col_idx, values, i, min_val, value_range, thresholds, palette) ==
    IF i > Len(values) THEN Returned(grid)
    ELSE IF thresholds = <<>> THEN Raised(grid)
    ELSE LET color_idx == IconBand(values[i], min_val, value_range, thresholds)
         IN  IF color_idx >= Len(palette) THEN Raised(grid)
             ELSE IconLoop(SetFill(grid, values[i].row, col_idx,
                                   RGBColorFromString(palette[color_idx + 1])),
                           col_idx, values, i + 1, min_val, value_range,
                           thresholds, palette)

\* apply_icon_set that widens an empty value range downwards, to min - 1.
apply_icon_set_widened_down(grid, t, rule, first_row) ==
    LET column == Get(rule, "column", ColNone)
        thresholds == Get(rule, "thresholds", <<33, 67>>)
        found == FindColumnIndex(t, column, rule)
        palette == Get(rule, "colors", <<RedF8696B, YellowFFEB84, Green63BE7B>>)
    IN  IF found = <<>> THEN Returned(grid)
        ELSE
        LET col_idx == found[1]
            values == ColumnValues(t, col_idx, first_row)
        IN  IF values = <<>> THEN Returned(grid)
            ELSE
            LET min_val == MinValue(values)
                max_val == IF ValEq(min_val, MaxValue(values))
                           THEN Norm(min_val.n - min_val.d, min_val.d)
                           ELSE MaxValue(values)
                value_range == ValSub(max_val, min_val)
            IN  IconLoop(grid, col_idx, values, 1, min_val, value_range,
                         thresholds, palette)

apply_icon_set(grid, t, rule, first_row) ==
    LET column == Get(rule, "column", ColNone)
        thresholds == Get(rule, "thresholds", <<33, 67>>)
        found == FindColumnIndex(t, column, rule)
        palette == Get(rule, "colors", <<RedF8696B, YellowFFEB84, Green63BE7B>>)
    IN  IF found = <<>> THEN Returned(grid)
        ELSE
        LET col_idx == found[1]
            values == ColumnValues(t, col_idx, first_row)
        IN  IF values = <<>> THEN Returned(grid)
            ELSE
            LET min_val == MinValue(values)
                max_val == IF ValEq(min_val, MaxValue(values))
                           THEN Norm(min_val.n + min_val.d, min_val.d)
                           ELSE MaxValue(values)
                value_range == ValSub(max_val, min_val)
            IN  IconLoop(grid, col_idx, values, 1, min_val, value_range,
                         thresholds, palette)

\* Highlights with >= and <= read as > and <.
HighlightsStrict(operator, cell_value, threshold) ==
    LET lhs == cell_value.n
        rhs == threshold * cell_value.d
    IN  CASE operator = "greater_than" -> lhs > rhs
          [] operator = "less_than" -> lhs < rhs
          [] operator = "equal_to" -> lhs = rhs
          [] operator = "not_equal_to" -> lhs # rhs
          [] operator = "greater_than_or_equal" -> lhs > rhs
          [] operator = "less_than_or_equal" -> lhs < rhs
          [] OTHER -> FALSE

\* The comparison an operator name selects; an unknown name highlights nothing.
Highlights(operator, cell_value, threshold) ==
    LET lhs == cell_value.n
        rhs == threshold * cell_value.d
    IN  CASE operator = "greater_than" -> lhs > rhs
          [] operator = "less_than" -> lhs < rhs
          [] operator = "equal_to" -> lhs = rhs
          [] operator = "not_equal_to" -> lhs # rhs
          [] operator = "greater_than_or_equal" -> lhs >= rhs
          [] operator = "less_than_or_equal" -> lhs =< rhs
          [] OTHER -> FALSE

\* apply_highlight_cells that whitens a cell already holding the colour.
apply_highlight_cells_toggling(grid, t, rule, first_row) ==
    LET column == Get(rule, "column", ColNone)
        operator == Get(rule, "operator", "greater_than")
        threshold == Get(rule, "value", 0)
        color == Get(rule, "color", RedFF0000)
        found == FindColumnIndex(t, column, rule)
    IN  IF found = <<>> THEN Returned(grid)
        ELSE
        LET values == ColumnValues(t, found[1], first_row)
        IN  Returned(PaintColumn(grid, found[1], values,
                [i \in 1 .. Len(values) |->
                    IF Highlights(operator, values[i], threshold)
                    THEN IF grid[values[i].row + 1][found[1] + 1]
                                = RGBColorFromString(color)
                         THEN <<255, 255, 255>>
                         ELSE RGBColorFromString(color)
                    ELSE NoFill]))

apply_highlight_cells(grid, t, rule, first_row) ==
    LET column == Get(rule, "column", ColNone)
        operator == Get(rule, "operator", "greater_than")
        threshold == Get(rule, "value", 0)
        color == Get(rule, "color", RedFF0000)
        found == FindColumnIndex(t, column, rule)
    IN  IF found = <<>> THEN Returned(grid)
        ELSE
        LET values == ColumnValues(t, found[1], first_row)
        IN  Returned(PaintColumn(grid, found[1], values,
                [i \in 1 .. Len(values) |->
                    IF Highlights(operator, values[i], threshold)
                    THEN RGBColorFromString(color)
                    ELSE NoFill]))

\* An insertion that puts a value in front of the values equal to it.
RECURSIVE InsertSortedUnstable(_, _, _)
InsertSortedUnstable(sorted, x, descending) ==
    IF sorted = <<>> THEN <<x>>
    ELSE IF (IF descending THEN ~ValLess(x, Head(sorted)) ELSE ~ValLess(Head(sorted), x))
    THEN <<x>> \o sorted
    ELSE <<Head(sorted)>> \o InsertSortedUnstable(Tail(sorted), x, descending)

\* list.sort(key=lambda x: x[1], reverse=descending): a stable sort, by
\* insertion; equal values keep their order of appearance either way.
RECURSIVE InsertSorted(_, _, _)
InsertSorted(sorted, x, descending) ==
    IF sorted = <<>> THEN <<x>>
    ELSE IF (IF descending THEN ValLess(Head(sorted), x) ELSE ValLess(x, Head(sorted)))
    THEN <<x>> \o sorted
    ELSE <<Head(sorted)>> \o InsertSorted(Tail(sorted), x, descending)

RECURSIVE SortValues(_, _)
SortValues(values, descending) ==
    IF values = <<>> THEN <<>>
    ELSE InsertSorted(SortValues(SubSeq(values, 1, Len(values) - 1), descending),
                      values[Len(values)], descending)

\* The count with the percentage rounded up instead of cut off.
TopBottomCountRoundedUp(percent, rank, n) ==
    IF percent THEN (n * rank + 99) \div 100
    ELSE IF rank < n THEN rank ELSE n

\* count = int(len(values) * rank / 100) or min(rank, len(values))
TopBottomCount(percent, rank, n) ==
    IF percent THEN PyTrunc(n * rank, 100)
    ELSE IF rank < n THEN rank ELSE n

apply_top_bottom(grid, t, rule, first_row) ==
    LET column == Get(rule, "column", ColNone)
        top == Get(rule, "top", TRUE)
        percent == Get(rule, "percent", FALSE)
        rank == Get(rule, "rank", 10)
        color == Get(rule, "color", Green63BE7B)
        found == FindColumnIndex(t, column, rule)
    IN  IF found = <<>> THEN Returned(grid)
        ELSE
        LET col_idx == found[1]
            values == ColumnValues(t, col_idx, first_row)
        IN  IF values = <<>> THEN Returned(grid)
            ELSE
            LET sorted == SortValues(values, top)
                count == TopBottomCount(percent, rank, Len(values))
                chosen == SubSeq(sorted, 1, IF count < Len(sorted) THEN count
                                            ELSE Len(sorted))
            IN  Returned(PaintColumn(grid, col_idx, chosen,
                            [i \in 1 .. Len(chosen) |-> RGBColorFromString(color)]))

\* A turn of the loop that raises on a type it does not know.
ApplyRuleStrict(grid, t, rule, first_row) ==
    LET rule_type == Get(rule, "type", "")
    IN  CASE rule_type = "color_scale" -> apply_color_scale(grid, t, rule, first_row)
          [] rule_type = "data_bar" -> apply_data_bars(grid, t, rule, first_row)
          [] rule_type = "icon_set" -> apply_icon_set(grid, t, rule, first_row)
          [] rule_type = "highlight_cells" ->
                apply_highlight_cells(grid, t, rule, first_row)
          [] rule_type = "top_bottom" -> apply_top_bottom(grid, t, rule, first_row)
          [] OTHER -> Raised(grid)

\* One turn of the loop of apply_conditional_formatting.
ApplyRule(grid, t, rule, first_row) ==
    LET rule_type == Get(rule, "type", "")
    IN  CASE rule_type = "color_scale" -> apply_color_scale(grid, t, rule, first_row)
          [] rule_type = "data_bar" -> apply_data_bars(grid, t, rule, first_row)
          [] rule_type = "icon_set" -> apply_icon_set(grid, t, rule, first_row)
          [] rule_type = "highlight_cells" ->
                apply_highlight_cells(grid, t, rule, first_row)
          [] rule_type = "top_bottom" -> apply_top_bottom(grid, t, rule, first_row)
          [] OTHER -> Returned(grid)

\* apply_conditional_formatting from the i-th rule on: the fills at the end,
\* whether a rule raised (which ends the loop), and the fills after each rule
\* that returned.
RECURSIVE RunRules(_, _, _, _, _, _)
RECURSIVE AfterRule(_, _, _, _, _, _)
AfterRule(out, t, rule_list, first_row, i, done) ==
    IF out.raised
    THEN [colors |-> out.colors, raised |-> TRUE, trace |-> done]
    ELSE RunRules(out.colors, t, rule_list, first_row, i + 1,
                  Append(done, out.colors))

RunRules(grid, t, rule_list, first_row, i, done) ==
    IF i > Len(rule_list)
    THEN [colors |-> grid, raised |-> FALSE, trace |-> done]
    ELSE AfterRule(ApplyRule(grid, t, rule_list[i], first_row),
                   t, rule_list, first_row, i, done)

\* apply_conditional_formatting walking the rule list from its end.
apply_conditional_formatting_reversed(grid, t, rule_list, first_row) ==
    RunRules(grid, t,
             [i \in 1 .. Len(rule_list) |-> rule_list[Len(rule_list) + 1 - i]],
             first_row, 1, <<>>)

apply_conditional_formatting(grid, t, rule_list, first_row) ==
    RunRules(grid, t, rule_list, first_row, 1, <<>>)

(***************************************************************************)
(* The rule engine's inputs: rendered tables and rule dictionaries.        *)
(***************************************************************************)
Header == <<<<"D", "e", "p", "t">>, <<"R", "e", "v">>>>

WideHeader == <<<<"D", "e", "p", "t">>, <<"R", "e", "v">>, <<"Q", "t", "y">>>>

Tables ==
    {<<Header, <<<<"A">>, <<"1", "0", "0", "0">>>>, <<<<"B">>, <<"2", "0", "0", "0">>>>, <<<<"C">>, <<"3", "0", "0", "0">>>>>>,
     <<Header, <<<<"A">>, <<"2", "0", "0", "0">>>>, <<<<"B">>, <<"2", "0", "0", "0">>>>, <<<<"C">>, <<"2", ",", "0", "0", "0">>>>>>,
     <<Header, <<<<"A">>, <<"n", "/", "a">>>>, <<<<"B">>, <<>>>>>>,
     <<Header, <<<<"5">>, <<"$", "1", ",", "0", "0", "0">>>>, <<<<"5">>, <<"(", "3", ")">>>>, <<<<"7">>, <<"5", "0", ".", "0", "%">>>>, <<<<"7">>, <<"-", "3">>>>>>,
     <<WideHeader, <<<<"A">>, <<"1", "0">>, <<"4">>>>, <<<<"B">>, <<"2", "0">>, <<"4">>>>, <<<<"C">>, <<"4", "0">>, <<"8">>>>,
       <<<<"D">>, <<"2", "0">>, <<"2", ".", "5">>>>>>}

\* The fills of a freshly rendered StyledTable: the header fill on row 0 and
\* the alternating fill on every second data row.
HeaderFill == RGBColorFromString(<<"3", "C", "2", "F", "8", "0">>)
AlternatingFill == RGBColorFromString(<<"F", "2", "F", "2", "F", "2">>)

StyledFills(t) ==
    [r \in 1 .. NumRows(t) |->
        [c \in 1 .. NumCols(t) |->
            IF r = 1 THEN HeaderFill
            ELSE IF (r - 2) % 2 = 1 THEN AlternatingFill
            ELSE NoFill]]

White == <<"F", "F", "F", "F", "F", "F">>
Black == <<"0", "0", "0", "0", "0", "0">>
Pink == <<"F", "F", "C", "C", "C", "C">>
LowerBlue == <<"e", "6", "f", "2", "f", "f">>

Rules ==
    {[type |-> "color_scale", column |-> ColStr(<<"R", "e", "v">>),
      min_color |-> White, max_color |-> Black],
     [type |-> "color_scale", column |-> ColStr(<<"R", "e", "v">>), mid_color |-> YellowFFEB84],
     [type |-> "highlight_cells", column |-> ColStr(<<"R", "e", "v">>),
      operator |-> "greater_than", value |-> 1500, color |-> Pink],
     [type |-> "highlight_cells", column |-> ColInt(0),
      operator |-> "less_than_or_equal", value |-> 5],
     [type |-> "data_bar", column |-> ColStr(<<"R", "e", "v">>), color |-> LowerBlue],
     [type |-> "icon_set", column |-> ColStr(<<"R", "e", "v">>)],
     [type |-> "top_bottom", column |-> ColStr(<<"R", "e", "v">>), top |-> FALSE, rank |-> 2],
     [type |-> "color_scale", column |-> ColStr(<<"r", "e", "v">>)],
     [type |-> "data_bar", column |-> ColStr(<<" ", "R", "e", "v">>)],
     [type |-> "icon_set", column |-> ColStr(<<"Q", "t", "y">>), thresholds |-> <<>>],
     [type |-> "highlight_cells", column |-> ColStr(<<"R", "E", "V">>),
      operator |-> "not_equal_to"],
     [type |-> "top_bottom", column |-> ColStr(<<"R", "e", "v", "e", "n", "u", "e">>)],
     [type |-> "highlight_cells", column |-> ColStr(<<"R", "e", "v", "e", "n", "u", "e">>), col_idx |-> 1,
      operator |-> "less_than", value |-> 2000, color |-> Pink]}

\* The rule lists of at most k rules.
RuleLists(k) == UNION {[1 .. j -> Rules] : j \in 0 .. k}

\* What a call costs of the bound: its rules, and one when it has none.
Cost(rule_list) == IF rule_list = <<>> THEN 1 ELSE Len(rule_list)

\* No value is formatted while the rule engine alone is exercised.
NoValue ==
    /\ value = PyNone
    /\ format_type = "text"
    /\ config = DefaultFormatting
    /\ formatted = FALSE
    /\ result = <<>>

Init ==
    /\ table \in Tables
    /\ colors = StyledFills(table)
    /\ start_colors = colors
    /\ start_row \in 0 .. 2
    /\ rules = <<>>
    /\ before = colors
    /\ trace = <<>>
    /\ raised = FALSE
    /\ applied = {}
    /\ work = 0
    /\ NoValue
    /\ NoPresentation

\* What a call leaves behind.  The rules it applied are those the loop
\* reached: all of them, or those up to the one that raised.
Leaves(out, rule_list) ==
    /\ colors' = out.colors
    /\ raised' = out.raised
    /\ trace' = out.trace
    /\ applied' = applied \cup
            {rule_list[i] : i \in 1 .. (IF out.raised THEN Len(out.trace) + 1
                                        ELSE Len(rule_list))}
    /\ before' = colors
    /\ rules' = rule_list
    /\ work' = work + Cost(rule_list)
    /\ UNCHANGED <<table, start_colors, start_row>>
    /\ UNCHANGED fvars
    /\ UNCHANGED pvars

\* A call apply_conditional_formatting(table, rule_list, start_row).
ApplyConditionalFormatting ==
    \E rule_list \in RuleLists(MaxRules - work) :
        /\ work + Cost(rule_list) <= MaxRules
        /\ Leaves(apply_conditional_formatting(colors, table, rule_list, start_row),
                  rule_list)

Next == ApplyConditionalFormatting

Spec == Init /\ [][Next]_vars

(***************************************************************************)
(* Rule dictionaries with keys left out: no type or a type the engine does *)
(* not know, no column, and rules that name a type and little else.        *)
(***************************************************************************)
Rev == ColStr(<<"R", "e", "v">>)

SparseRules ==
    {[type |-> "sparkline", column |-> Rev, color |-> Pink],
     [type |-> "Color_Scale", column |-> Rev],
     [column |-> Rev, operator |-> "less_than", value |-> 2000, color |-> Pink],
     [type |-> "highlight_cells", column |-> Rev],
     [type |-> "highlight_cells", column |-> Rev, operator |-> "less_than",
      value |-> 2500, color |-> Pink],
     [type |-> "top_bottom", column |-> Rev],
     [type |-> "top_bottom", column |-> Rev, rank |-> 1, color |-> LowerBlue],
     [type |-> "data_bar", column |-> Rev],
     [type |-> "color_scale", column |-> Rev],
     [type |-> "icon_set", column |-> Rev],
     [type |-> "highlight_cells"],
     [type |-> "color_scale", min_color |-> White, max_color |-> Black],
     [type |-> "highlight_cells", col_idx |-> 1, operator |-> "less_than",
      value |-> 2000, color |-> Pink]}

\* The lists of at most k rules of a set.
RuleListsOf(rule_set, k) == UNION {[1 .. j -> rule_set] : j \in 0 .. k}

\* A call apply_conditional_formatting(table, rule_list, start_row) with
\* rules that leave keys out.
ApplySparseRules ==
    \E rule_list \in RuleListsOf(SparseRules, MaxRules - work) :
        /\ work + Cost(rule_list) <= MaxRules
        /\ Leaves(apply_conditional_formatting(colors, table, rule_list, start_row),
                  rule_list)

SparseNext == ApplySparseRules

SparseSpec == Init /\ [][SparseNext]_vars

(***************************************************************************)
(* Highlight rules: each operator against a threshold that some cell of    *)
(* the tables equals.                                                      *)
(***************************************************************************)
Operators == {"greater_than", "less_than", "equal_to", "not_equal_to",
              "greater_than_or_equal", "less_than_or_equal"}

HighlightRules ==
    {[type |-> "highlight_cells", column |-> Rev, operator |-> op,
      value |-> 2000, color |-> Pink] : op \in Operators}
    \cup
    {[type |-> "highlight_cells", column |-> ColInt(1), operator |-> op,
      value |-> 20, color |-> LowerBlue] : op \in Operators}

\* A call apply_conditional_formatting(table, rule_list, start_row) with
\* highlight rules.
ApplyHighlightRules ==
    \E rule_list \in RuleListsOf(HighlightRules, MaxRules - work) :
        /\ work + Cost(rule_list) <= MaxRules
        /\ Leaves(apply_conditional_formatting(colors, table, rule_list, start_row),
                  rule_list)

HighlightNext == ApplyHighlightRules

HighlightSpec == Init /\ [][HighlightNext]_vars

(***************************************************************************)
(* Top/bottom rules: counts and percentages below, within and beyond the   *)
(* number of candidate cells.                                              *)
(***************************************************************************)
TopBottomRules ==
    {[type |-> "top_bottom", column |-> Rev, top |-> TRUE, rank |-> k, color |-> Pink]
        : k \in {0, 2}}
    \cup
    {[type |-> "top_bottom", column |-> Rev]}
    \cup
    {[type |-> "top_bottom", column |-> Rev, top |-> FALSE, rank |-> k,
      color |-> LowerBlue] : k \in {-1, 1, 3}}
    \cup
    {[type |-> "top_bottom", column |-> Rev, top |-> TRUE, percent |-> TRUE,
      rank |-> k, color |-> Pink] : k \in {50, 99, 150}}
    \cup
    {[type |-> "top_bottom", column |-> Rev, top |-> FALSE, percent |-> TRUE,
      rank |-> k, color |-> LowerBlue] : k \in {-50, 34, 100}}

\* A call apply_conditional_formatting(table, rule_list, start_row) with
\* top/bottom rules.
ApplyTopBottomRules ==
    \E rule_list \in RuleListsOf(TopBottomRules, MaxRules - work) :
        /\ work + Cost(rule_list) <= MaxRules
        /\ Leaves(apply_conditional_formatting(colors, table, rule_list, start_row),
                  rule_list)

TopBottomNext == ApplyTopBottomRules

TopBottomSpec == Init /\ [][TopBottomNext]_vars

(***************************************************************************)
(* Icon-set rules: default and configured thresholds and colours, on       *)
(* columns with distinct and with equal values.                            *)
(***************************************************************************)
IconSetRules ==
    {[type |-> "icon_set", column |-> Rev],
     [type |-> "icon_set", column |-> Rev, thresholds |-> <<25, 50>>,
      colors |-> <<White, Pink, Black>>],
     [type |-> "icon_set", column |-> ColInt(1), thresholds |-> <<0, 50>>],
     [type |-> "icon_set", column |-> Rev, thresholds |-> <<-10, 40>>,
      colors |-> <<Pink, LowerBlue, White>>],
     [type |-> "icon_set", column |-> Rev, thresholds |-> <<67, 33>>],
     [type |-> "icon_set", column |-> ColStr(<<"Q", "t", "y">>),
      thresholds |-> <<50, 100>>, colors |-> <<Black, White, Pink>>],
     [type |-> "icon_set", column |-> Rev, thresholds |-> <<50>>],
     [type |-> "icon_set", column |-> Rev, colors |-> <<White, Black>>]}

\* A call apply_conditional_formatting(table, rule_list, start_row) with
\* icon-set rules.
ApplyIconSetRules ==
    \E rule_list \in RuleListsOf(IconSetRules, MaxRules - work) :
        /\ work + Cost(rule_list) <= MaxRules
        /\ Leaves(apply_conditional_formatting(colors, table, rule_list, start_row),
                  rule_list)

IconSetNext == ApplyIconSetRules

IconSetSpec == Init /\ [][IconSetNext]_vars

(***************************************************************************)
(* Data-bar rules and colour-scale rules with a middle colour.             *)
(***************************************************************************)
ShadingRules ==
    {[type |-> "data_bar", column |-> Rev],
     [type |-> "data_bar", column |-> Rev, color |-> LowerBlue],
     [type |-> "data_bar", column |-> ColInt(0), color |-> Pink],
     [type |-> "color_scale", column |-> Rev, mid_color |-> YellowFFEB84],
     [type |-> "color_scale", column |-> Rev, min_color |-> White,
      mid_color |-> Pink, max_color |-> Black],
     [type |-> "color_scale", column |-> ColInt(1), min_color |-> Black,
      mid_color |-> LowerBlue, max_color |-> White],
     [type |-> "color_scale", column |-> Rev, min_color |-> White,
      mid_color |-> <<>>, max_color |-> Black],
     [type |-> "color_scale", column |-> ColInt(0), min_color |-> Pink,
      max_color |-> LowerBlue]}

\* A call apply_conditional_formatting(table, rule_list, start_row) with
\* data-bar and colour-scale rules.
ApplyShadingRules ==
    \E rule_list \in RuleListsOf(ShadingRules, MaxRules - work) :
        /\ work + Cost(rule_list) <= MaxRules
        /\ Leaves(apply_conditional_formatting(colors, table, rule_list, start_row),
                  rule_list)

ShadingNext == ApplyShadingRules

ShadingSpec == Init /\ [][ShadingNext]_vars

(***************************************************************************)
(* Rules that name their column by an integer, inside and outside the      *)
(* grid, or that carry a col_idx key next to a label or to no column.      *)
(***************************************************************************)
Revenue == ColStr(<<"R", "e", "v", "e", "n", "u", "e">>)

ColumnRules ==
    {[type |-> "highlight_cells", column |-> ColInt(0), operator |-> "less_than_or_equal",
      value |-> 5, color |-> Pink],
     [type |-> "data_bar", column |-> ColInt(1), color |-> LowerBlue],
     [type |-> "top_bottom", column |-> ColInt(2), rank |-> 1],
     [type |-> "color_scale", column |-> ColInt(-1)],
     [type |-> "data_bar", column |-> ColInt(-2), color |-> Black],
     [type |-> "icon_set", column |-> ColInt(3)],
     [type |-> "data_bar", column |-> ColInt(1), col_idx |-> 0, color |-> White],
     [type |-> "data_bar", column |-> Rev, col_idx |-> 0, color |-> Pink],
     [type |-> "data_bar", column |-> Revenue, col_idx |-> 1, color |-> Black],
     [type |-> "highlight_cells", column |-> Rev, col_idx |-> 3,
      operator |-> "greater_than", value |-> 15, color |-> White],
     [type |-> "data_bar", column |-> Revenue, col_idx |-> -1, color |-> Pink],
     [type |-> "top_bottom", col_idx |-> 1, rank |-> 1, color |-> Black],
     [type |-> "icon_set", column |-> Rev, thresholds |-> <<>>]}

\* A call apply_conditional_formatting(table, rule_list, start_row) with
\* rules that name columns by number.
ApplyColumnRules ==
    \E rule_list \in RuleListsOf(ColumnRules, MaxRules - work) :
        /\ work + Cost(rule_list) <= MaxRules
        /\ Leaves(apply_conditional_formatting(colors, table, rule_list, start_row),
                  rule_list)

ColumnNext == ApplyColumnRules

ColumnSpec == Init /\ [][ColumnNext]_vars

(***************************************************************************)
(* src/presentation.py: the configuration dictionaries.  A dictionary      *)
(* lives at an address of the heap and maps keys to items; an item is a    *)
(* scalar or the address of another dictionary, so that two names for one  *)
(* dictionary see each other's changes.                                    *)
(***************************************************************************)
Ref(id) == [k |-> "ref", v |-> id]

Val(n) == [k |-> "val", v |-> n]

\* isinstance(item, dict)
IsDict(item) == item.k = "ref"

\* d[key] = item
Put(d, key, item) ==
    [x \in DOMAIN d \cup {key} |-> IF x = key THEN item ELSE d[x]]

\* d.update(e): the items of e are taken as they are, addresses included.
Update(d, e) ==
    [x \in DOMAIN d \cup DOMAIN e |-> IF x \in DOMAIN e THEN e[x] ELSE d[x]]

\* DEFAULT_CONFIG, cut down to two sections, one of them nested, at the
\* addresses 1 .. 4.
DefaultRoot == 1

DefaultHeap ==
    <<[general |-> Ref(2), formatting |-> Ref(3)],
      [font_size |-> Val(11)],
      [dollars |-> Ref(4)],
      [decimal_places |-> Val(0)]>>

\* The dictionaries a caller passes as config: one that goes into a nested
\* section and adds a section, one that replaces a section by a scalar, one
\* that gives a section as a dictionary.  They follow DEFAULT_CONFIG in the
\* heap.
NestedOverride == 5

ScalarOverride == 9

SectionOverride == 10

CallerHeap ==
    <<[formatting |-> Ref(6), extra |-> Ref(8)],
      [dollars |-> Ref(7)],
      [decimal_places |-> Val(2)],
      [key |-> Val(1)],
      [general |-> Val(5)],
      [general |-> Ref(11)],
      [font_size |-> Val(14)]>>

\* None, as the config argument.
NoOverride == 0

\* copy.deepcopy(h[src]): the heap with the copies appended and the address
\* of the copy.  The dictionaries reached from a configuration form a tree
\* here, so no dictionary is met twice in one copy.
RECURSIVE DeepCopy(_, _)
RECURSIVE CopyItems(_, _, _, _)
RECURSIVE CopiedItem(_, _, _, _, _)
DeepCopy(h, src) == CopyItems(Append(h, <<>>), src, DOMAIN h[src], Len(h) + 1)

CopyItems(h, src, keys, dst) ==
    IF keys = {} THEN [heap |-> h, id |-> dst]
    ELSE LET key == CHOOSE key \in keys : TRUE
         IN  IF IsDict(h[src][key])
             THEN CopiedItem(DeepCopy(h, h[src][key].v), src, keys, dst, key)
             ELSE CopyItems([h EXCEPT ![dst] = Put(@, key, h[src][key])],
                            src, keys \ {key}, dst)

CopiedItem(sub, src, keys, dst, key) ==
    CopyItems([sub.heap EXCEPT ![dst] = Put(@, key, Ref(sub.id))],
              src, keys \ {key}, dst)

\* The test of the loop body: the section exists and both sides are dicts.
Merges(h, cfg, config_arg, section) ==
    /\ section \in DOMAIN h[cfg]
    /\ IsDict(h[config_arg][section])
    /\ IsDict(h[cfg][section])

\* _update_config, on the configuration at address cfg: a section that
\* merges is updated in place, any other is assigned.
UpdateConfig(h, cfg, config_arg) ==
    [id \in DOMAIN h |->
        IF id = cfg
        THEN [section \in DOMAIN h[cfg] \cup DOMAIN h[config_arg] |->
                IF section \in DOMAIN h[config_arg]
                        /\ ~Merges(h, cfg, config_arg, section)
                THEN h[config_arg][section]
                ELSE h[cfg][section]]
        ELSE IF \E section \in DOMAIN h[config_arg] :
                    Merges(h, cfg, config_arg, section) /\ h[cfg][section].v = id
        THEN Update(h[id],
                    h[h[config_arg][CHOOSE section \in DOMAIN h[config_arg] :
                            /\ Merges(h, cfg, config_arg, section)
                            /\ h[cfg][section].v = id].v])
        ELSE h[id]]

\* _update_config_for_slide: the same loop, on the slide's configuration.
UpdateConfigForSlide(h, slide_config, config_arg) ==
    UpdateConfig(h, slide_config, config_arg)

\* if config: ... , after the deep copy: None and {} are skipped.
Overridden(copy, config_arg) ==
    [heap |-> IF config_arg # NoOverride /\ DOMAIN copy.heap[config_arg] # {}
              THEN UpdateConfig(copy.heap, copy.id, config_arg)
              ELSE copy.heap,
     id |-> copy.id]

\* PPTXPresentation.__init__: self.config
PPTXPresentationInit(h, config_arg) ==
    Overridden(DeepCopy(h, DefaultRoot), config_arg)

\* add_slide taking the presentation's configuration itself, not a copy.
add_slide_sharing(h, self_config, config_arg) ==
    [heap |-> IF config_arg # NoOverride /\ DOMAIN h[config_arg] # {}
              THEN UpdateConfigForSlide(h, self_config, config_arg)
              ELSE h,
     id |-> self_config]

\* The slide's copy, with the override applied.
SlideOverridden(copy, config_arg) ==
    [heap |-> IF config_arg # NoOverride /\ DOMAIN copy.heap[config_arg] # {}
              THEN UpdateConfigForSlide(copy.heap, copy.id, config_arg)
              ELSE copy.heap,
     id |-> copy.id]

\* add_slide: slide_config
add_slide(h, self_config, config_arg) ==
    SlideOverridden(DeepCopy(h, self_config), config_arg)

\* What a configuration reads as: the items under every key, through every
\* nested dictionary.
RECURSIVE DeepValue(_, _)
DeepValue(h, id) ==
    [key \in DOMAIN h[id] |->
        IF IsDict(h[id][key]) THEN DeepValue(h, h[id][key].v)
        ELSE [scalar |-> h[id][key].v]]

\* What a caller can pass as config: None, one of its own dictionaries, or
\* the configuration of a presentation or slide that exists.
ConfigArguments ==
    {NoOverride, NestedOverride, ScalarOverride, SectionOverride}
        \cup {presentations[p].config : p \in 1 .. Len(presentations)}
        \cup {slides[s].config : s \in 1 .. Len(slides)}

ConfigInit ==
    /\ heap = DefaultHeap \o CallerHeap
    /\ presentations = <<>>
    /\ slides = <<>>
    /\ NoValue
    /\ NoTable

Constructed(out) ==
    /\ heap' = out.heap
    /\ presentations' = Append(presentations,
            [config |-> out.id, made |-> DeepValue(out.heap, out.id)])
    /\ UNCHANGED slides
    /\ UNCHANGED <<fvars, evars>>

\* PPTXPresentation(config=config_arg)
NewPresentation ==
    \E config_arg \in ConfigArguments :
        /\ Len(presentations) + Len(slides) < MaxCalls
        /\ Constructed(PPTXPresentationInit(heap, config_arg))

Added(out, p) ==
    /\ heap' = out.heap
    /\ slides' = Append(slides,
            [presentation |-> p, config |-> out.id,
             made |-> DeepValue(out.heap, out.id)])
    /\ UNCHANGED presentations
    /\ UNCHANGED <<fvars, evars>>

\* presentation.add_slide(config=config_arg)
AddSlide ==
    \E p \in 1 .. Len(presentations) :
        \E config_arg \in ConfigArguments :
            /\ Len(presentations) + Len(slides) < MaxCalls
            /\ Added(add_slide(heap, presentations[p].config, config_arg), p)

ConfigNext == NewPresentation \/ AddSlide

ConfigSpec == ConfigInit /\ [][ConfigNext]_vars

(***************************************************************************)
(* Reading a rendered text back, for the properties below.                 *)
(***************************************************************************)
\* The digits of a text read as one integer: the number shown, in units of
\* its last decimal place.
ShownUnits(text) == DigitsValue(SelectSeq(text, IsDigit))

\* How many digits follow the decimal point (0 when there is none).
DecimalsShown(text) ==
    IF \E i \in 1 .. Len(text) : text[i] = "."
    THEN Len(text) - (CHOOSE i \in 1 .. Len(text) : text[i] = ".")
            - Len(SelectSeq(text, LAMBDA x : x \in {")", "%", "K", "M", "B"}))
    ELSE 0

Chars(text) == {text[i] : i \in 1 .. Len(text)}

IsPlainNumber(v) == v.t \in {"int", "float"}

(***************************************************************************)
(* Properties of the formatter (checked under FormatSpec).                 *)
(***************************************************************************)
\* C1: format_value(-1234.5, "dollars", profile) with decimal_places = 0,
\* show_symbol and negative_in_parentheses on and no scaling returns exactly
\* "($1,235)".
C1_DollarsCanonical ==
    (/\ formatted
     /\ format_type = "dollars"
     /\ value = PyFloat(-2469, 2)
     /\ config.dollars = DefaultFormatting.dollars)
        => result = <<"(", "$", "1", ",", "2", "3", "5", ")">>

\* C2: format_percentage shows 100 * v when |v| <= 1 and v itself when
\* |v| > 1, with the configured number of decimal places and a trailing "%"
\* exactly when show_symbol is on; 0.5 and 50 both give "50.0%" by default.
C2_PercentageScaling ==
    (formatted /\ format_type = "percentage" /\ IsPlainNumber(value)) =>
        LET section == config.percentages
            places == Get(section, "decimal_places", 1)
            sn == IF Abs(value.n) <= value.d THEN 100 * Abs(value.n) ELSE Abs(value.n)
            shown == ShownUnits(result)
        IN  /\ (result[Len(result)] = "%") <=> Get(section, "show_symbol", TRUE)
            /\ Len(SelectSeq(result, LAMBDA x : x = "%")) <= 1
            /\ DecimalsShown(result) = places
            /\ Abs(shown * value.d - sn * (10 ^ places)) < value.d
            /\ (/\ section = DefaultFormatting.percentages
                /\ value \in {PyFloat(1, 2), PyInt(50), PyFloat(50, 1)})
                    => result = <<"5", "0", ".", "0", "%">>

C2_Witness ==
    /\ formatted
    /\ format_type = "percentage"
    /\ value = PyFloat(4, 4)
    /\ config = DefaultFormatting
    /\ result = <<"1", "0", "0", ".", "0", "%">>

\* C3: format_counts shows the value rounded to the nearest integer, grouped
\* by thousands exactly when show_commas is on, a negative result as its
\* magnitude in parentheses when negative_in_parentheses is on, and never a
\* "$" or a "%"; -3 gives "(3)" by default.
C3_Counts ==
    (formatted /\ format_type = "counts" /\ IsPlainNumber(value)) =>
        LET section == config.counts
            shown == ShownUnits(result)
            negative == value.n < 0 /\ shown > 0
        IN  /\ Chars(result) \cap {"$", "%", "."} = {}
            /\ 2 * Abs(shown * value.d - Abs(value.n)) <= value.d
            /\ ("," \in Chars(result))
                    <=> (Get(section, "show_commas", TRUE) /\ shown >= 1000)
            /\ \A i \in 1 .. Len(result) :
                    result[i] = "," =>
                        /\ i + 3 <= Len(result)
                        /\ \A j \in i + 1 .. i + 3 : IsDigit(result[j])
                        /\ (i + 4 <= Len(result) => ~IsDigit(result[i + 4]))
            /\ IF negative /\ Get(section, "negative_in_parentheses", TRUE)
               THEN /\ result[1] = "(" /\ result[Len(result)] = ")"
                    /\ "-" \notin Chars(result)
               ELSE IF negative
               THEN result[1] = "-" /\ Chars(result) \cap {"(", ")"} = {}
               ELSE Chars(result) \cap {"(", ")", "-"} = {}
            /\ (section = DefaultFormatting.counts /\ value = PyInt(-3))
                    => result = <<"(", "3", ")">>

C3_Witness ==
    /\ formatted
    /\ format_type = "counts"
    /\ value = PyFloat(-3, 2)
    /\ config = DefaultFormatting
    /\ result = <<"(", "2", ")">>

(***************************************************************************)
(* Reading the last call of apply_conditional_formatting back.             *)
(***************************************************************************)
\* The positions of the rules of the last call that ran: all of them when no
\* rule raised, those up to the raising one otherwise.
RanRules == 1 .. (IF raised THEN Len(trace) + 1 ELSE Len(rules))

RuleRaised(i) == raised /\ i = Len(trace) + 1

\* The fills the i-th rule found and the fills it left.
FillsBefore(i) == IF i = 1 THEN before ELSE trace[i - 1]

FillsAfter(i) == IF i <= Len(trace) THEN trace[i] ELSE colors

RuleColumn(rule) == Get(rule, "column", ColNone)

\* The rule's column is a text that no cell of row 0 holds.
UnmatchedLabel(rule) ==
    /\ RuleColumn(rule).k = "str"
    /\ \A c \in 0 .. NumCols(table) - 1 : CellText(table, 0, c) # RuleColumn(rule).s

\* The text reads as a number once every "$", "," and "%" is taken out:
\* blanks around, an optional sign, digits with at most one point.
ParsesAsNumber(text) ==
    LET bare == SelectSeq(text, LAMBDA x : x \notin {"$", ",", "%"})
        s == RStrip(LStrip(bare, " "), " ")
        body == IF s # <<>> /\ s[1] \in {"-", "+"} THEN Tail(s) ELSE s
    IN  /\ \E i \in 1 .. Len(body) : IsDigit(body[i])
        /\ \A i \in 1 .. Len(body) : IsDigit(body[i]) \/ body[i] = "."
        /\ \A i, j \in 1 .. Len(body) : (body[i] = "." /\ body[j] = ".") => i = j

\* The rows start_row .. last of a column whose text reads as a number.
CandidateRows(col_idx) ==
    {r \in start_row .. NumRows(table) - 1 : ParsesAsNumber(CellText(table, r, col_idx))}

(***************************************************************************)
(* Properties of the rule engine (checked under Spec).                     *)
(***************************************************************************)
\* C4: a rule of any type whose column is a text label equal to the text of
\* no cell of row 0 leaves every cell colour unchanged and raises no error.
C4_UnknownLabelNoOp ==
    \A i \in RanRules :
        UnmatchedLabel(rules[i]) =>
            /\ FillsAfter(i) = FillsBefore(i)
            /\ ~RuleRaised(i)

\* C5: a rule of any type never recolours a cell whose text does not read as
\* a number once every "$", "," and "%" is removed, and a rule whose column
\* has no cell in rows start_row .. last that reads as a number leaves the
\* whole grid unchanged and raises no error.
C5_NonNumericUntouched ==
    \A i \in RanRules :
        LET found == FindColumnIndex(table, RuleColumn(rules[i]), rules[i])
        IN  /\ \A r \in 0 .. NumRows(table) - 1 :
                \A c \in 0 .. NumCols(table) - 1 :
                    ~ParsesAsNumber(CellText(table, r, c)) =>
                        FillsAfter(i)[r + 1][c + 1] = FillsBefore(i)[r + 1][c + 1]
            /\ (found # <<>> /\ CandidateRows(found[1]) = {}) =>
                    /\ FillsAfter(i) = FillsBefore(i)
                    /\ ~RuleRaised(i)

\* Two rules of different types met a column of pure text and left every
\* fill as it was.
C5_Witness ==
    /\ CellText(table, 1, 1) = <<"n", "/", "a">>
    /\ start_row = 1
    /\ Len(rules) = 2
    /\ Len(trace) = 2
    /\ Get(rules[1], "type", "") = "icon_set"
    /\ Get(rules[2], "type", "") = "top_bottom"
    /\ \A i \in 1 .. 2 : FindColumnIndex(table, RuleColumn(rules[i]), rules[i]) = <<1>>
    /\ CandidateRows(1) = {}
    /\ ~raised
    /\ colors = before

\* C6: a color_scale rule, with or without a mid_color, over a column whose
\* parseable values in rows start_row .. last are all equal changes no cell
\* colour and raises no error.
C6_DegenerateScale ==
    \A i \in RanRules :
        LET found == FindColumnIndex(table, RuleColumn(rules[i]), rules[i])
        IN  (/\ Get(rules[i], "type", "") = "color_scale"
             /\ found # <<>>
             /\ LET values == ColumnValues(table, found[1], start_row)
                IN  \A j, k \in 1 .. Len(values) : ValEq(values[j], values[k]))
            => /\ FillsAfter(i) = FillsBefore(i)
               /\ ~RuleRaised(i)

\* A scale with a mid_color and one without met the column 2000, 2000, "2,000".
C6_Witness ==
    /\ CellText(table, 1, 1) = <<"2", "0", "0", "0">>
    /\ CellText(table, 3, 1) = <<"2", ",", "0", "0", "0">>
    /\ start_row = 1
    /\ Len(rules) = 2
    /\ Len(trace) = 2
    /\ \A i \in 1 .. 2 :
            /\ Get(rules[i], "type", "") = "color_scale"
            /\ FindColumnIndex(table, RuleColumn(rules[i]), rules[i]) = <<1>>
    /\ "mid_color" \in DOMAIN rules[1]
    /\ "mid_color" \notin DOMAIN rules[2]
    /\ Len(ColumnValues(table, 1, start_row)) = 3
    /\ colors = before

\* C7: applying the same highlight_cells rule twice in a row gives every cell
\* the colour that applying it once gives.
C7_HighlightIdempotent ==
    \A i \in 1 .. Len(trace) - 1 :
        (/\ Get(rules[i], "type", "") = "highlight_cells"
         /\ rules[i + 1] = rules[i])
            => trace[i + 1] = trace[i]

\* The rule "Rev > 1500 is pink" ran twice on 1000, 2000, 3000 and painted.
C7_Witness ==
    /\ Len(rules) = 2
    /\ Len(trace) = 2
    /\ Get(rules[1], "type", "") = "highlight_cells"
    /\ rules[2] = rules[1]
    /\ CellText(table, 1, 1) = <<"1", "0", "0", "0">>
    /\ start_row = 1
    /\ trace[1] # before
    /\ trace[1][3][2] = RGBColorFromString(Pink)
    /\ trace[1][2][2] = NoFill
    /\ colors = trace[1]

\* C8: a color_scale rule without mid_color over a column with min < max
\* fills every candidate cell of value v with scale[p], where scale is the
\* 100-step interpolation from min_color to max_color and p is the floor of
\* 99 (v - min) / (max - min) kept within 0 .. 99: a minimum cell gets
\* min_color, a maximum cell gets max_color, the value halfway gets scale[49].
C8_ScalePosition ==
    \A i \in RanRules :
        LET rule == rules[i]
            found == FindColumnIndex(table, RuleColumn(rule), rule)
        IN  (/\ Get(rule, "type", "") = "color_scale"
             /\ "mid_color" \notin DOMAIN rule
             /\ found # <<>>)
            =>
            LET values == ColumnValues(table, found[1], start_row)
                min_color == Get(rule, "min_color", Green63BE7B)
                max_color == Get(rule, "max_color", RedF8696B)
                scale == create_color_scale(min_color, max_color, 100)
                Filled(k) == FillsAfter(i)[values[k].row + 1][found[1] + 1]
            IN  \A lo, hi \in 1 .. Len(values) :
                    (/\ \A k \in 1 .. Len(values) :
                            ~ValLess(values[k], values[lo]) /\ ~ValLess(values[hi], values[k])
                     /\ ValLess(values[lo], values[hi]))
                    =>
                    \A k \in 1 .. Len(values) :
                        LET offset == ValSub(values[k], values[lo])
                            range == ValSub(values[hi], values[lo])
                            num == 99 * offset.n * range.d
                            den == offset.d * range.n
                            p == CHOOSE q \in 0 .. 99 :
                                    /\ q * den <= num
                                    /\ q = 99 \/ (q + 1) * den > num
                        IN  /\ Filled(k) = RGBColorFromString(scale[p + 1])
                            /\ ValEq(values[k], values[lo]) =>
                                    Filled(k) = RGBColorFromString(min_color)
                            /\ ValEq(values[k], values[hi]) =>
                                    Filled(k) = RGBColorFromString(max_color)
                            /\ 2 * offset.n * range.d = range.n * offset.d =>
                                    Filled(k) = RGBColorFromString(scale[50])

\* The white-to-black scale ran on 1000, 2000, 3000: white, the grey of
\* scale[49], black.
C8_Witness ==
    /\ Len(rules) = 1
    /\ Len(trace) = 1
    /\ Get(rules[1], "type", "") = "color_scale"
    /\ Get(rules[1], "min_color", <<>>) = White
    /\ Get(rules[1], "max_color", <<>>) = Black
    /\ "mid_color" \notin DOMAIN rules[1]
    /\ start_row = 1
    /\ \A r \in 1 .. 3 : CellText(table, r, 1) = <<DigitChar(r), "0", "0", "0">>
    /\ colors[2][2] = <<255, 255, 255>>
    /\ colors[3][2] = <<129, 129, 129>>
    /\ colors[4][2] = <<0, 0, 0>>

\* What the i-th rule of the last call writes: its fills on a grid without
\* any (a rule function reads the cells' texts only, never their fills).
RuleWrites(i) ==
    ApplyRule([r \in 1 .. NumRows(table) |-> [c \in 1 .. NumCols(table) |-> NoFill]],
              table, rules[i], start_row).colors

\* C9: the rules are applied strictly in list order: after the call every cell
\* has the colour written by the last rule of the list that colours it, and a
\* cell that no rule colours keeps the colour it had before the call.
C9_LastRuleWins ==
    \A writes \in {[i \in RanRules |-> RuleWrites(i)]} :
        \A r \in 1 .. NumRows(table) :
            \A c \in 1 .. NumCols(table) :
                LET painters == {i \in RanRules : writes[i][r][c] # NoFill}
                IN  IF painters = {}
                    THEN colors[r][c] = before[r][c]
                    ELSE LET last == CHOOSE i \in painters : \A j \in painters : j <= i
                         IN  colors[r][c] = writes[last][r][c]

\* The white-to-black scale and then "Rev > 1500 is pink" on 1000, 2000, 3000:
\* the grey and the black of the scale are pink in the end, the white stays.
C9_Witness ==
    /\ Len(rules) = 2
    /\ Len(trace) = 2
    /\ Get(rules[1], "type", "") = "color_scale"
    /\ Get(rules[2], "type", "") = "highlight_cells"
    /\ start_row = 1
    /\ trace[1][2][2] = <<255, 255, 255>>
    /\ trace[1][3][2] = <<129, 129, 129>>
    /\ trace[1][4][2] = <<0, 0, 0>>
    /\ colors[2][2] = <<255, 255, 255>>
    /\ colors[3][2] = RGBColorFromString(Pink)
    /\ colors[4][2] = RGBColorFromString(Pink)
    /\ \A r \in 1 .. 4 : colors[r][1] = before[r][1]

\* C10: after any sequence of calls with start row s, a cell's colour differs
\* from its initial colour only if its row is >= s and its column is the
\* resolved target column of some applied rule.
C10_Frame ==
    \A r \in 0 .. NumRows(table) - 1 :
        \A c \in 0 .. NumCols(table) - 1 :
            colors[r + 1][c + 1] # start_colors[r + 1][c + 1] =>
                /\ r >= start_row
                /\ \E rule \in applied :
                        FindColumnIndex(table, RuleColumn(rule), rule) = <<c>>

\* Two calls with start row 2 on 1000, 2000, 3000: the rows from 2 on changed
\* in column 1, row 1 and column 0 are as they were at the start.
C10_Witness ==
    /\ start_row = 2
    /\ work = 2
    /\ Len(rules) = 1
    /\ Cardinality(applied) = 2
    /\ \A rule \in applied : FindColumnIndex(table, RuleColumn(rule), rule) = <<1>>
    /\ before # start_colors
    /\ colors # before
    /\ CellText(table, 1, 1) = <<"1", "0", "0", "0">>
    /\ colors[3][2] # start_colors[3][2]
    /\ colors[4][2] # start_colors[4][2]
    /\ colors[1] = start_colors[1]
    /\ colors[2] = start_colors[2]
    /\ \A r \in 1 .. 4 : colors[r][1] = start_colors[r][1]

(***************************************************************************)
(* Further properties of the formatter (checked under FormatSpec).         *)
(***************************************************************************)
NumericKinds == {"dollars", "percentage", "counts"}

\* C13: format_value returns the empty string for None and for NaN under
\* every format kind, an unknown kind included.
C13_NullIsEmpty ==
    (formatted /\ value \in {PyNone, PyNaN}) => result = <<>>

\* None went through the text kind, where str(None) would be "None".
C13_Witness ==
    /\ formatted
    /\ value = PyNone
    /\ format_type = "text"
    /\ result = <<>>

\* The divisor a scaling unit stands for.
ScalingDivisor(scaling) ==
    CASE scaling = "K" -> 1000
      [] scaling = "M" -> 1000000
      [] scaling = "B" -> 1000000000
      [] OTHER -> 1

\* The scaling unit of the profile applies to the value: |value| >= divisor.
ScalingApplies(v, section) ==
    /\ Get(section, "scaling", "None") \in {"K", "M", "B"}
    /\ Abs(v.n) \div v.d >= ScalingDivisor(Get(section, "scaling", "None"))

\* C14: with scaling K, M or B the dollars output shows the value divided by
\* 1,000 / 1,000,000 / 1,000,000,000 and ends with the unit's letter exactly
\* when |value| is at or above the divisor; below it the value is shown
\* unscaled and without a letter.  With K, 999 gives "$999" and 1000 "$1K".
C14_ScalingThreshold ==
    (formatted /\ format_type = "dollars" /\ IsPlainNumber(value)) =>
        LET section == config.dollars
            scaling == Get(section, "scaling", "None")
            places == Get(section, "decimal_places", 0)
            applies == ScalingApplies(value, section)
            whole == ShownUnits(result) \div (10 ^ DecimalsShown(result))
            target == IF applies
                      THEN (Abs(value.n) \div value.d) \div ScalingDivisor(scaling)
                      ELSE Abs(value.n) \div value.d
        IN  /\ (result[Len(result)] \in {"K", "M", "B"}) <=> applies
            /\ applies => result[Len(result)] = scaling
            /\ Len(SelectSeq(result, LAMBDA x : x \in {"K", "M", "B"}))
                    = (IF applies THEN 1 ELSE 0)
            /\ Len(SelectSeq(result, IsDigit)) <= 9 => whole \in {target, target + 1}
            /\ (section = [DefaultFormatting.dollars EXCEPT !.scaling = "K"]
                    /\ value = PyInt(999)) => result = <<"$", "9", "9", "9">>
            /\ (section = [DefaultFormatting.dollars EXCEPT !.scaling = "K"]
                    /\ value = PyInt(1000)) => result = <<"$", "1", "K">>

C14_Witness ==
    /\ formatted
    /\ format_type = "dollars"
    /\ config.dollars = [DefaultFormatting.dollars EXCEPT !.scaling = "K"]
    /\ value = PyInt(1000)
    /\ result = <<"$", "1", "K">>

\* C15: for every numeric kind and every setting of negative_in_parentheses
\* the rendering of the value 0 has neither parentheses nor a minus sign.
C15_ZeroUnsigned ==
    (/\ formatted
     /\ format_type \in NumericKinds
     /\ IsPlainNumber(value)
     /\ value.n = 0)
        => Chars(result) \cap {"(", ")", "-"} = {}

\* The texts whose digits fit the integers of this model.
Readable(text) == Len(SelectSeq(text, IsDigit)) <= 9

\* The number a rendering displays, n/d: its digits, with the sign that a
\* minus or a pair of parentheses gives it.
Displayed(text) ==
    LET magnitude == ShownUnits(text)
    IN  [n |-> IF Chars(text) \cap {"-", "("} # {} THEN -magnitude ELSE magnitude,
         d |-> 10 ^ DecimalsShown(text)]

IsMagnitudeText(text) ==
    /\ text # <<>>
    /\ \A i \in 1 .. Len(text) : IsDigit(text[i]) \/ text[i] \in {",", "."}
    /\ IsDigit(text[1])
    /\ Len(SelectSeq(text, LAMBDA x : x = ".")) <= 1

\* C17: with show_symbol on the dollars output is "$", then the numeric text
\* (its parentheses or its minus sign included), then the scaling suffix (K,
\* M, B or nothing); with show_symbol off it is the numeric text, then the
\* suffix.
C17_DollarLayout ==
    (formatted /\ format_type = "dollars" /\ IsPlainNumber(value)) =>
        LET section == config.dollars
            symbol == Get(section, "show_symbol", TRUE)
            parenthesised == value.n < 0 /\ Get(section, "negative_in_parentheses", TRUE)
            suffixed == ScalingApplies(value, section)
            rest == IF symbol THEN Tail(result) ELSE result
            numeric == IF suffixed THEN SubSeq(rest, 1, Len(rest) - 1) ELSE rest
        IN  /\ symbol => result[1] = "$"
            /\ "$" \notin Chars(rest)
            /\ suffixed => rest[Len(rest)] = Get(section, "scaling", "None")
            /\ Chars(numeric) \cap {"K", "M", "B"} = {}
            /\ IF parenthesised
               THEN /\ numeric[1] = "("
                    /\ numeric[Len(numeric)] = ")"
                    /\ IsMagnitudeText(SubSeq(numeric, 2, Len(numeric) - 1))
               ELSE IF numeric[1] = "-"
               THEN SignBit(value) /\ IsMagnitudeText(Tail(numeric))
               ELSE IsMagnitudeText(numeric)

\* -1500 with K scaling, in parentheses: "$", "(1.5)", "K".
C17_Witness ==
    /\ formatted
    /\ format_type = "dollars"
    /\ value = PyInt(-1500)
    /\ config.dollars = [decimal_places |-> 1, show_symbol |-> TRUE,
                         negative_in_parentheses |-> TRUE, scaling |-> "K"]
    /\ result = <<"$", "(", "1", ".", "5", ")", "K">>

\* C18: format_dollars rounds the (scaled) magnitude to the configured
\* number of decimal places, whatever that number is: what it shows is
\* within half a unit of the last place shown of the magnitude, so with
\* decimal_places = 0 it is the nearest integer.
C18_DollarsRounded ==
    (/\ formatted
     /\ format_type = "dollars"
     /\ IsPlainNumber(value)
     /\ Abs(value.n) \div value.d < 2000000
     /\ ~ScalingApplies(value, config.dollars))
        => LET places == Get(config.dollars, "decimal_places", 0)
           IN  /\ DecimalsShown(result) = places
               /\ 2 * Abs(ShownUnits(result) * value.d - Abs(value.n) * (10 ^ places))
                        <= value.d

(***************************************************************************)
(* Properties of rules with keys left out (checked under SparseSpec).      *)
(***************************************************************************)
RuleTypes == {"color_scale", "data_bar", "icon_set", "highlight_cells", "top_bottom"}

KnownType(rule) == "type" \in DOMAIN rule /\ rule["type"] \in RuleTypes

\* C11: a rule without a type, or with a type that is none of the five,
\* changes no cell and raises no error, and the rules after it in the list
\* are still applied: the call ends as the call without those rules ends.
C11_UnknownTypeSkipped ==
    /\ \A i \in RanRules :
            ~KnownType(rules[i]) =>
                /\ ~RuleRaised(i)
                /\ FillsAfter(i) = FillsBefore(i)
    /\ \A known \in {apply_conditional_formatting(before, table,
                            SelectSeq(rules, KnownType), start_row)} :
            /\ colors = known.colors
            /\ raised = known.raised

\* A rule of an unknown type came first and the highlight rule after it
\* still coloured the cells below 2500.
C11_Witness ==
    /\ Len(rules) = 2
    /\ rules[1] = [type |-> "sparkline", column |-> Rev, color |-> Pink]
    /\ rules[2] = [type |-> "highlight_cells", column |-> Rev, operator |-> "less_than",
                   value |-> 2500, color |-> Pink]
    /\ start_row = 1
    /\ CellText(table, 1, 1) = <<"1", "0", "0", "0">>
    /\ ~raised
    /\ trace[1] = before
    /\ before[2][2] = NoFill
    /\ colors[2][2] = RGBColorFromString(Pink)

\* The defaults of each rule type.
Defaults(rule_type) ==
    CASE rule_type = "highlight_cells" ->
            [operator |-> "greater_than", value |-> 0,
             color |-> <<"F", "F", "0", "0", "0", "0">>]
      [] rule_type = "top_bottom" ->
            [top |-> TRUE, percent |-> FALSE, rank |-> 10,
             color |-> <<"6", "3", "B", "E", "7", "B">>]
      [] rule_type = "data_bar" -> [color |-> <<"6", "3", "8", "E", "C", "6">>]
      [] rule_type = "color_scale" ->
            [min_color |-> <<"6", "3", "B", "E", "7", "B">>,
             max_color |-> <<"F", "8", "6", "9", "6", "B">>]
      [] rule_type = "icon_set" -> [thresholds |-> <<33, 67>>]

\* The rule with every key it leaves out set to the default.
WithDefaults(rule) ==
    [key \in DOMAIN rule \cup DOMAIN Defaults(rule["type"]) |->
        IF key \in DOMAIN rule THEN rule[key] ELSE Defaults(rule["type"])[key]]

\* C12: a rule of any of the five types that leaves out keys other than type
\* is applied without raising and colours as the rule with the defaults
\* written out colours; a rule without a column changes nothing.
C12_Defaults ==
    \A i \in RanRules :
        KnownType(rules[i]) =>
            /\ ~RuleRaised(i)
            /\ \A full \in {ApplyRule(FillsBefore(i), table, WithDefaults(rules[i]),
                                      start_row)} :
                    /\ ~full.raised
                    /\ FillsAfter(i) = full.colors
            /\ "column" \notin DOMAIN rules[i] => FillsAfter(i) = FillsBefore(i)

(***************************************************************************)
(* Properties of highlight rules (checked under HighlightSpec).            *)
(***************************************************************************)
\* The number a candidate cell reads as.
CellValue(r, col_idx) == ParseFloat(StripAdornments(CellText(table, r, col_idx)))

\* value op t, for a value n/d and an integer t, by the sign of value - t.
Satisfies(op, v, t) ==
    LET diff == v.n - t * v.d
    IN  \/ op = "greater_than" /\ diff > 0
        \/ op = "less_than" /\ diff < 0
        \/ op = "equal_to" /\ diff = 0
        \/ op = "not_equal_to" /\ diff # 0
        \/ op = "greater_than_or_equal" /\ diff >= 0
        \/ op = "less_than_or_equal" /\ diff <= 0

\* C19: after a highlight_cells rule with one of the six operators, a
\* threshold t and a colour c, every candidate cell of its column in the rows
\* from start_row on whose value satisfies (value op t) has the colour c, and
\* every other candidate cell has the colour it had before the rule.
C19_HighlightSemantics ==
    \A i \in RanRules :
        \A found \in {FindColumnIndex(table, RuleColumn(rules[i]), rules[i])} :
            (/\ Get(rules[i], "type", "") = "highlight_cells"
             /\ Get(rules[i], "operator", "greater_than") \in Operators
             /\ found # <<>>)
                => /\ ~RuleRaised(i)
                   /\ \A r \in CandidateRows(found[1]) :
                        FillsAfter(i)[r + 1][found[1] + 1] =
                            IF Satisfies(Get(rules[i], "operator", "greater_than"),
                                         CellValue(r, found[1]),
                                         Get(rules[i], "value", 0))
                            THEN RGBColorFromString(Get(rules[i], "color", RedFF0000))
                            ELSE FillsBefore(i)[r + 1][found[1] + 1]

\* value >= 2000 over 1000, 2000, 3000: the cell equal to the threshold and
\* the one above it are coloured, the one below keeps its fill.
C19_Witness ==
    /\ Len(rules) = 1
    /\ rules[1] = [type |-> "highlight_cells", column |-> Rev,
                   operator |-> "greater_than_or_equal", value |-> 2000, color |-> Pink]
    /\ start_row = 1
    /\ \A r \in 1 .. 3 : CellText(table, r, 1) = <<DigitChar(r), "0", "0", "0">>
    /\ colors[2][2] = before[2][2]
    /\ colors[3][2] = RGBColorFromString(Pink)
    /\ before[3][2] = AlternatingFill
    /\ colors[4][2] = RGBColorFromString(Pink)

(***************************************************************************)
(* Properties of top/bottom rules (checked under TopBottomSpec).           *)
(***************************************************************************)
\* min(rank, n), or min(floor(n * rank / 100), n) in percent mode.
SelectedCount(rule, n) ==
    LET rank == Get(rule, "rank", 10)
        wanted == IF Get(rule, "percent", FALSE) THEN (n * rank) \div 100 ELSE rank
    IN  IF wanted < n THEN wanted ELSE n

\* C20: a top_bottom rule over n candidate cells colours exactly
\* min(rank, n) of them in count mode and min(floor(n * rank / 100), n) in
\* percent mode, none when that number is 0 or less, always with the rule's
\* colour; and every coloured candidate is >= (top) or <= (bottom) every
\* candidate left uncoloured.
C20_TopBottomCount ==
    \A i \in RanRules :
        \A found \in {FindColumnIndex(table, RuleColumn(rules[i]), rules[i])} :
            (Get(rules[i], "type", "") = "top_bottom" /\ found # <<>>) =>
                \A writes \in {RuleWrites(i)} :
                    LET col_idx == found[1]
                        candidates == CandidateRows(col_idx)
                        coloured == {r \in candidates : writes[r + 1][col_idx + 1] # NoFill}
                        count == SelectedCount(rules[i], Cardinality(candidates))
                    IN  /\ ~RuleRaised(i)
                        /\ Cardinality(coloured) = (IF count > 0 THEN count ELSE 0)
                        /\ \A r \in coloured :
                            /\ writes[r + 1][col_idx + 1] =
                                 RGBColorFromString(Get(rules[i], "color", Green63BE7B))
                            /\ FillsAfter(i)[r + 1][col_idx + 1] = writes[r + 1][col_idx + 1]
                        /\ \A r \in candidates \ coloured :
                                FillsAfter(i)[r + 1][col_idx + 1]
                                    = FillsBefore(i)[r + 1][col_idx + 1]
                        /\ \A r \in coloured : \A u \in candidates \ coloured :
                            IF Get(rules[i], "top", TRUE)
                            THEN ~ValLess(CellValue(r, col_idx), CellValue(u, col_idx))
                            ELSE ~ValLess(CellValue(u, col_idx), CellValue(r, col_idx))

\* The top 50 percent of 10, 20, 40, 20: two cells, 40 and the first 20; the
\* second 20 and the 10 keep their fills.
C20_Witness ==
    /\ Len(rules) = 1
    /\ rules[1] = [type |-> "top_bottom", column |-> Rev, top |-> TRUE,
                   percent |-> TRUE, rank |-> 50, color |-> Pink]
    /\ start_row = 1
    /\ NumRows(table) = 5
    /\ CellText(table, 2, 1) = <<"2", "0">>
    /\ CellText(table, 4, 1) = <<"2", "0">>
    /\ colors[2][2] = before[2][2]
    /\ colors[3][2] = RGBColorFromString(Pink)
    /\ colors[4][2] = RGBColorFromString(Pink)
    /\ colors[5][2] = before[5][2]
    /\ before[5][2] # RGBColorFromString(Pink)

\* C21: when candidates of equal value lie on both sides of the cut of a
\* top_bottom rule, in top and in bottom mode, the ones the rule colours are
\* in earlier rows than the ones it leaves.
C21_TiesByFirstAppearance ==
    \A i \in RanRules :
        \A found \in {FindColumnIndex(table, RuleColumn(rules[i]), rules[i])} :
            (Get(rules[i], "type", "") = "top_bottom" /\ found # <<>>) =>
                \A writes \in {RuleWrites(i)} :
                    \A r, u \in CandidateRows(found[1]) :
                        (/\ writes[r + 1][found[1] + 1] # NoFill
                         /\ writes[u + 1][found[1] + 1] = NoFill
                         /\ ValEq(CellValue(r, found[1]), CellValue(u, found[1])))
                            => r < u

\* The bottom 1 of 2000, 2000, 2,000: the first row is coloured, the two
\* equal ones after it are not.
C21_Witness ==
    /\ Len(rules) = 1
    /\ rules[1] = [type |-> "top_bottom", column |-> Rev, top |-> FALSE, rank |-> 1,
                   color |-> LowerBlue]
    /\ start_row = 1
    /\ CellText(table, 1, 1) = <<"2", "0", "0", "0">>
    /\ CellText(table, 3, 1) = <<"2", ",", "0", "0", "0">>
    /\ colors[2][2] = RGBColorFromString(LowerBlue)
    /\ colors[3][2] = before[3][2]
    /\ colors[4][2] = before[4][2]
    /\ colors[4][2] # RGBColorFromString(LowerBlue)

(***************************************************************************)
(* Properties of icon-set rules (checked under IconSetSpec).               *)
(***************************************************************************)
\* The candidate rows holding the smallest and the largest value.
MinRows(col_idx) ==
    {r \in CandidateRows(col_idx) : \A u \in CandidateRows(col_idx) :
        ~ValLess(CellValue(u, col_idx), CellValue(r, col_idx))}

MaxRows(col_idx) ==
    {r \in CandidateRows(col_idx) : \A u \in CandidateRows(col_idx) :
        ~ValLess(CellValue(r, col_idx), CellValue(u, col_idx))}

\* value <= lo + (hi - lo) * threshold / 100, all terms brought to integers.
AtMostCut(v, lo, hi, threshold) ==
    (v.n * lo.d - lo.n * v.d) * hi.d * 100
        <= (hi.n * lo.d - lo.n * hi.d) * v.d * threshold

\* C22: an icon_set rule with two thresholds and three colours over a column
\* with min < max gives every candidate cell colors[0] when its value is at
\* most min + (max - min) * t0 / 100, else colors[1] when it is at most
\* min + (max - min) * t1 / 100, else colors[2].
C22_IconBands ==
    \A i \in RanRules :
        \A found \in {FindColumnIndex(table, RuleColumn(rules[i]), rules[i])} :
            (/\ Get(rules[i], "type", "") = "icon_set"
             /\ found # <<>>
             /\ Len(Get(rules[i], "thresholds", <<33, 67>>)) = 2
             /\ Len(Get(rules[i], "colors", <<1, 2, 3>>)) = 3
             /\ CandidateRows(found[1]) # {}
             /\ MinRows(found[1]) \cap MaxRows(found[1]) = {})
                => LET col_idx == found[1]
                       thresholds == Get(rules[i], "thresholds", <<33, 67>>)
                       palette == Get(rules[i], "colors",
                                      << <<"F", "8", "6", "9", "6", "B">>,
                                         <<"F", "F", "E", "B", "8", "4">>,
                                         <<"6", "3", "B", "E", "7", "B">> >>)
                       lo == CellValue(CHOOSE r \in MinRows(col_idx) : TRUE, col_idx)
                       hi == CellValue(CHOOSE r \in MaxRows(col_idx) : TRUE, col_idx)
                   IN  /\ ~RuleRaised(i)
                       /\ \A r \in CandidateRows(col_idx) :
                            FillsAfter(i)[r + 1][col_idx + 1] =
                                RGBColorFromString(
                                    IF AtMostCut(CellValue(r, col_idx), lo, hi, thresholds[1])
                                    THEN palette[1]
                                    ELSE IF AtMostCut(CellValue(r, col_idx), lo, hi,
                                                      thresholds[2])
                                    THEN palette[2]
                                    ELSE palette[3])

\* Thresholds 25 and 50 over 1000, 2000, 3000: the cuts are 1500 and 2000,
\* and the three cells get the three colours, 2000 being at the second cut.
C22_Witness ==
    /\ Len(rules) = 1
    /\ rules[1] = [type |-> "icon_set", column |-> Rev, thresholds |-> <<25, 50>>,
                   colors |-> <<White, Pink, Black>>]
    /\ start_row = 1
    /\ \A r \in 1 .. 3 : CellText(table, r, 1) = <<DigitChar(r), "0", "0", "0">>
    /\ colors[2][2] = RGBColorFromString(White)
    /\ colors[3][2] = RGBColorFromString(Pink)
    /\ colors[4][2] = RGBColorFromString(Black)

\* C28: an icon_set rule over a column whose candidate values are all equal
\* raises no error and, when its first threshold is at least 0, fills every
\* candidate cell with colors[0].
C28_EqualValuesLowestBand ==
    \A i \in RanRules :
        \A found \in {FindColumnIndex(table, RuleColumn(rules[i]), rules[i])} :
            (/\ Get(rules[i], "type", "") = "icon_set"
             /\ found # <<>>
             /\ CandidateRows(found[1]) # {}
             /\ MinRows(found[1]) = CandidateRows(found[1])
             /\ Get(rules[i], "thresholds", <<33, 67>>) # <<>>
             /\ Get(rules[i], "thresholds", <<33, 67>>)[1] >= 0)
                => /\ ~RuleRaised(i)
                   /\ \A r \in CandidateRows(found[1]) :
                        FillsAfter(i)[r + 1][found[1] + 1] =
                            RGBColorFromString(
                                Get(rules[i], "colors",
                                    << <<"F", "8", "6", "9", "6", "B">> >>)[1])

\* First threshold 0 over 2000, 2000, 2,000: all three cells get the default
\* lowest-band colour.
C28_Witness ==
    /\ Len(rules) = 1
    /\ rules[1] = [type |-> "icon_set", column |-> ColInt(1), thresholds |-> <<0, 50>>]
    /\ start_row = 1
    /\ CellText(table, 1, 1) = <<"2", "0", "0", "0">>
    /\ CellText(table, 3, 1) = <<"2", ",", "0", "0", "0">>
    /\ ~raised
    /\ \A r \in 2 .. 4 : colors[r][2] = <<248, 105, 107>>

(***************************************************************************)
(* Properties of data bars and of the three-colour scale (checked under    *)
(* ShadingSpec).                                                           *)
(***************************************************************************)
\* C23: a data_bar rule fills every candidate cell of its column with the one
\* configured colour (638EC6 when none is configured), whatever the cell's
\* value, also when all the values are equal; every other cell is unchanged.
C23_DataBarFlatFill ==
    \A i \in RanRules :
        \A found \in {FindColumnIndex(table, RuleColumn(rules[i]), rules[i])} :
            (Get(rules[i], "type", "") = "data_bar" /\ found # <<>>) =>
                /\ ~RuleRaised(i)
                /\ \A r \in 0 .. NumRows(table) - 1 :
                    \A c \in 0 .. NumCols(table) - 1 :
                        FillsAfter(i)[r + 1][c + 1] =
                            IF c = found[1] /\ r \in CandidateRows(c)
                            THEN RGBColorFromString(
                                    Get(rules[i], "color",
                                        <<"6", "3", "8", "E", "C", "6">>))
                            ELSE FillsBefore(i)[r + 1][c + 1]

\* The default data bar over three equal values, from row 0 on: the same
\* blue in the three candidate cells, the header cell left as it was.
C23_Witness ==
    /\ Len(rules) = 1
    /\ rules[1] = [type |-> "data_bar", column |-> Rev]
    /\ start_row = 0
    /\ CellText(table, 1, 1) = <<"2", "0", "0", "0">>
    /\ CellText(table, 3, 1) = <<"2", ",", "0", "0", "0">>
    /\ \A r \in 2 .. 4 : colors[r][2] = <<99, 142, 198>>
    /\ colors[1][2] = HeaderFill

\* The scale apply_color_scale builds for a rule with a mid_color.
MidColorScale(rule) ==
    Concat(create_color_scale(Get(rule, "min_color", Green63BE7B),
                              rule["mid_color"], HalfScaleSteps),
           HalfScaleSteps,
           create_color_scale(rule["mid_color"],
                              Get(rule, "max_color", RedF8696B), HalfScaleSteps),
           HalfScaleSteps)

\* C24: the scale of a color_scale rule with a mid_color has exactly 100
\* entries; entry 0 is the colour min_color, entries 49 and 50 are both the
\* colour mid_color, entry 99 is the colour max_color (the entries are the
\* colours in upper-case hex); and every cell the rule colours takes an entry
\* of the scale, at a position between 0 and 99.
C24_ThreeColourScale ==
    \A i \in RanRules :
        \A found \in {FindColumnIndex(table, RuleColumn(rules[i]), rules[i])} :
            (/\ Get(rules[i], "type", "") = "color_scale"
             /\ Get(rules[i], "mid_color", <<>>) # <<>>)
                => \A scale \in {MidColorScale(rules[i])} :
                    /\ DOMAIN scale = 1 .. 100
                    /\ RGBColorFromString(scale[1])
                            = hex_to_rgb(Get(rules[i], "min_color",
                                             <<"6", "3", "B", "E", "7", "B">>))
                    /\ RGBColorFromString(scale[50]) = hex_to_rgb(rules[i]["mid_color"])
                    /\ RGBColorFromString(scale[51]) = hex_to_rgb(rules[i]["mid_color"])
                    /\ RGBColorFromString(scale[100])
                            = hex_to_rgb(Get(rules[i], "max_color",
                                             <<"F", "8", "6", "9", "6", "B">>))
                    /\ ~RuleRaised(i)
                    /\ found # <<>> =>
                        \A r \in CandidateRows(found[1]) :
                            \/ FillsAfter(i)[r + 1][found[1] + 1]
                                    = FillsBefore(i)[r + 1][found[1] + 1]
                            \/ \E position \in 0 .. 99 :
                                FillsAfter(i)[r + 1][found[1] + 1]
                                    = RGBColorFromString(scale[position + 1])

\* White, pink, black over 1000, 2000, 3000: the smallest value takes entry
\* 0, the middle one entry 49 (the middle colour), the largest entry 99.
C24_Witness ==
    /\ Len(rules) = 1
    /\ rules[1] = [type |-> "color_scale", column |-> Rev, min_color |-> White,
                   mid_color |-> Pink, max_color |-> Black]
    /\ start_row = 1
    /\ \A r \in 1 .. 3 : CellText(table, r, 1) = <<DigitChar(r), "0", "0", "0">>
    /\ colors[2][2] = <<255, 255, 255>>
    /\ colors[3][2] = <<255, 204, 204>>
    /\ colors[4][2] = <<0, 0, 0>>

\* C27: apply_conditional_formatting changes no cell's text and neither the
\* row nor the column count, so a rule finds the same candidates, minimum and
\* maximum whatever rules ran before it: what it does to the fills it finds
\* is what it does to a grid without fills, laid over them.
C27_TextsUntouched ==
    /\ [][table' = table]_vars
    /\ [](\A i \in RanRules :
            \A writes \in {RuleWrites(i)} :
                \A r \in 1 .. NumRows(table) :
                    \A c \in 1 .. NumCols(table) :
                        FillsAfter(i)[r][c] =
                            IF writes[r][c] # NoFill THEN writes[r][c]
                            ELSE FillsBefore(i)[r][c])

\* A data bar ran first and coloured the column; the white-to-black scale
\* after it still found 1000, 2000, 3000 and shaded them from their minimum
\* to their maximum.
C27_Witness ==
    /\ Len(rules) = 2
    /\ rules[1] = [type |-> "data_bar", column |-> Rev]
    /\ rules[2] = [type |-> "color_scale", column |-> Rev, min_color |-> White,
                   mid_color |-> <<>>, max_color |-> Black]
    /\ start_row = 1
    /\ \A r \in 1 .. 3 : CellText(table, r, 1) = <<DigitChar(r), "0", "0", "0">>
    /\ \A r \in 2 .. 4 : trace[1][r][2] = <<99, 142, 198>>
    /\ colors[2][2] = <<255, 255, 255>>
    /\ colors[4][2] = <<0, 0, 0>>

(***************************************************************************)
(* Properties of column resolution (checked under ColumnSpec).             *)
(***************************************************************************)
\* The rule without its col_idx key and with the given column.
OnColumn(rule, column) ==
    [key \in (DOMAIN rule \ {"col_idx"}) \cup {"column"} |->
        IF key = "column" THEN column ELSE rule[key]]

\* The i-th rule did what the given rule does to the fills it found.
DoesAs(i, rule) ==
    \A out \in {ApplyRule(FillsBefore(i), table, rule, start_row)} :
        /\ FillsAfter(i) = out.colors
        /\ RuleRaised(i) = out.raised

\* The i-th rule changed nothing and raised nothing.
NoOp(i) == FillsAfter(i) = FillsBefore(i) /\ ~RuleRaised(i)

\* C25: a rule whose column is an integer c with 0 <= c < number of columns
\* targets column c: it changes cells of that column only and does what the
\* rule naming that column by its header text does; with any other integer
\* the rule changes no cell and raises no error.
C25_IntegerColumn ==
    \A i \in RanRules :
        RuleColumn(rules[i]).k = "int" =>
            \A c \in {RuleColumn(rules[i]).i} :
                IF 0 <= c /\ c < NumCols(table)
                THEN /\ DoesAs(i, OnColumn(rules[i], ColStr(CellText(table, 0, c))))
                     /\ \A r \in 1 .. NumRows(table) :
                            \A other \in (1 .. NumCols(table)) \ {c + 1} :
                                FillsAfter(i)[r][other] = FillsBefore(i)[r][other]
                ELSE NoOp(i)

\* Column 2 exists in the table of three columns: the largest Qty is
\* coloured, and nothing in the other two columns.
C25_Witness ==
    /\ Len(rules) = 1
    /\ rules[1] = [type |-> "top_bottom", column |-> ColInt(2), rank |-> 1]
    /\ NumCols(table) = 3
    /\ start_row = 1
    /\ CellText(table, 3, 2) = <<"8">>
    /\ colors[4][3] = <<99, 190, 123>>
    /\ \A r \in 1 .. NumRows(table) : \A c \in 1 .. 2 : colors[r][c] = before[r][c]

TwoColumns ==
    /\ Len(rules) = 2
    /\ FindColumnIndex(table, RuleColumn(rules[1]), rules[1]) # <<>>
    /\ FindColumnIndex(table, RuleColumn(rules[2]), rules[2]) # <<>>
    /\ FindColumnIndex(table, RuleColumn(rules[1]), rules[1])
            # FindColumnIndex(table, RuleColumn(rules[2]), rules[2])

C26_ConfigIsolation ==
    /\ heap # <<>> => DeepValue(heap, DefaultRoot) = DeepValue(DefaultHeap, DefaultRoot)
    /\ \A p \in 1 .. Len(presentations) :
            DeepValue(heap, presentations[p].config) = presentations[p].made
    /\ \A s \in 1 .. Len(slides) :
            DeepValue(heap, slides[s].config) = slides[s].made

\* One presentation, built with the nested override, and two slides of it:
\* the first with the scalar override, the second with none.  The three
\* configurations differ as the overrides say.
C26_Witness ==
    /\ Len(presentations) = 1
    /\ Len(slides) = 2
    /\ presentations[1].made.formatting.dollars.decimal_places = [scalar |-> 2]
    /\ presentations[1].made.general.font_size = [scalar |-> 11]
    /\ slides[1].made.general = [scalar |-> 5]
    /\ slides[2].made = presentations[1].made
    /\ DeepValue(heap, slides[1].config) # DeepValue(heap, slides[2].config)
    /\ DeepValue(heap, presentations[1].config) = slides[2].made

====
